---- MODULE Spec2Model ----
(***************************************************************************)
(* Model of the GroveDB query engine: the QueryItem algebra and the        *)
(* ordered set of merk/src/proofs/query/mod.rs, and the materialisation    *)
(* of queries against subtrees of grovedb/src/subtree.rs.  Further down:   *)
(* the Merk query proofs (create_proof, verify_query), the prefixed        *)
(* storage contexts with their transactions and batches, the              *)
(* ChunkProducer of merk/src/merk/chunks.rs, the encoding of Tree nodes    *)
(* of merk/src/tree/encoding.rs and Element insert, get and delete.        *)
(*                                                                         *)
(* Keys are byte strings compared lexicographically.  The model draws them *)
(* from the naturals 1..MaxKey (one-byte keys); 0 stands for the empty     *)
(* byte string b"" that the code uses as the placeholder bound of an       *)
(* unbounded end.  Bounds of query items are the even keys, so that every  *)
(* two bounds have a key strictly between them and every span that is not  *)
(* empty over the byte strings is not empty over the model's keys.         *)
(***************************************************************************)
EXTENDS Integers, Sequences, FiniteSets, TLC

\* ------------------------------------------------------------------ bounds
MaxBound == 2
MaxInserts == 2
MaxStored == 3
MaxWrites == 2
\* the length of a hash in the encodings of Tree nodes (32 in the code)
HASH_LENGTH == 2
MaxLimit == MaxStored - 1
MaxOffset == MaxStored - 1

MaxKey == 2 * MaxBound + 1
Keys == 1..MaxKey
BoundKeys == {2 * i : i \in 1..MaxBound}

\* b"", the bound the code reports for an unbounded end
EmptyKey == 0
U16 == 65536

None == <<>>
Some(x) == <<x>>
IsSome(o) == o # <<>>
Unwrap(o) == o[1]

\* The({e(x) : x \in {v}}) is e(v) with v computed once: the way a value that
\* is used several times (a call's result, a loop's state) is bound below
The(S) == CHOOSE x \in S : TRUE

\* ------------------------------------------------------- QueryItem algebra
Variants ==
  {"Key", "Range", "RangeInclusive", "RangeFull", "RangeFrom", "RangeTo",
   "RangeToInclusive", "RangeAfter", "RangeAfterTo", "RangeAfterToInclusive"}

QueryItem(t, s, e) == [t |-> t, start |-> s, end |-> e]

\* the items the model draws its inputs from: every variant, with bounds
\* among BoundKeys and a span that is not empty
Items ==
  {QueryItem("Key", k, k) : k \in BoundKeys}
  \cup {QueryItem("RangeFull", EmptyKey, EmptyKey)}
  \cup {QueryItem(t, k, EmptyKey) : t \in {"RangeFrom", "RangeAfter"}, k \in BoundKeys}
  \cup {QueryItem(t, EmptyKey, k) : t \in {"RangeTo", "RangeToInclusive"}, k \in BoundKeys}
  \cup {QueryItem("RangeInclusive", p[1], p[2]) :
          p \in {x \in BoundKeys \X BoundKeys : x[1] <= x[2]}}
  \cup {QueryItem(t, p[1], p[2]) :
          t \in {"Range", "RangeAfterTo", "RangeAfterToInclusive"},
          p \in {x \in BoundKeys \X BoundKeys : x[1] < x[2]}}

lower_bound(i) ==
  CASE i.t = "Key" -> <<i.start, FALSE>>
    [] i.t = "Range" -> <<i.start, FALSE>>
    [] i.t = "RangeInclusive" -> <<i.start, FALSE>>
    [] i.t = "RangeFull" -> <<EmptyKey, FALSE>>
    [] i.t = "RangeFrom" -> <<i.start, FALSE>>
    [] i.t = "RangeTo" -> <<EmptyKey, FALSE>>
    [] i.t = "RangeToInclusive" -> <<EmptyKey, FALSE>>
    [] i.t = "RangeAfter" -> <<i.start, TRUE>>
    [] i.t = "RangeAfterTo" -> <<i.start, TRUE>>
    [] i.t = "RangeAfterToInclusive" -> <<i.start, TRUE>>

lower_unbounded(i) == i.t \in {"RangeFull", "RangeTo", "RangeToInclusive"}

upper_bound(i) ==
  CASE i.t = "Key" -> <<i.start, TRUE>>
    [] i.t = "Range" -> <<i.end, FALSE>>
    [] i.t = "RangeInclusive" -> <<i.end, TRUE>>
    [] i.t = "RangeFull" -> <<EmptyKey, TRUE>>
    [] i.t = "RangeFrom" -> <<EmptyKey, TRUE>>
    [] i.t = "RangeTo" -> <<i.end, FALSE>>
    [] i.t = "RangeToInclusive" -> <<i.end, TRUE>>
    [] i.t = "RangeAfter" -> <<EmptyKey, TRUE>>
    [] i.t = "RangeAfterTo" -> <<i.end, FALSE>>
    [] i.t = "RangeAfterToInclusive" -> <<i.end, TRUE>>

upper_unbounded(i) == i.t \in {"RangeFull", "RangeFrom", "RangeAfter"}

contains(i, key) ==
  /\ \/ lower_unbounded(i)
     \/ key > lower_bound(i)[1]
     \/ (key = lower_bound(i)[1] /\ ~lower_bound(i)[2])
  /\ \/ upper_unbounded(i)
     \/ key < upper_bound(i)[1]
     \/ (key = upper_bound(i)[1] /\ upper_bound(i)[2])

\* Ord of byte slices
KeyCmp(a, b) == IF a < b THEN "Less" ELSE IF a = b THEN "Equal" ELSE "Greater"

\* Ord of the (slice, bool) tuples, false < true
BoundLe(x, y) == x[1] < y[1] \/ (x[1] = y[1] /\ (x[2] => y[2]))
BoundMin(x, y) == IF BoundLe(x, y) THEN x ELSE y
\* a max that looks at the key alone and so can drop an inclusive end
BoundMaxByKey(x, y) == IF x[1] <= y[1] THEN y ELSE x
BoundMax(x, y) == IF BoundLe(x, y) THEN y ELSE x

merge(self, other) ==
  LET lu == lower_unbounded(self) \/ lower_unbounded(other)
      uu == upper_unbounded(self) \/ upper_unbounded(other)
      lo == BoundMin(lower_bound(self), lower_bound(other))
      hi == BoundMax(upper_bound(self), upper_bound(other))
      start == lo[1]
      start_non_inclusive == lo[2]
      end == hi[1]
      end_inclusive == hi[2]
  IN IF start_non_inclusive
       THEN IF uu THEN QueryItem("RangeAfter", start, EmptyKey)
            ELSE IF end_inclusive THEN QueryItem("RangeAfterToInclusive", start, end)
            ELSE QueryItem("RangeAfterTo", start, end)
     ELSE IF lu
       THEN IF uu THEN QueryItem("RangeFull", EmptyKey, EmptyKey)
            ELSE IF end_inclusive THEN QueryItem("RangeToInclusive", EmptyKey, end)
            ELSE QueryItem("RangeTo", EmptyKey, end)
     ELSE IF uu THEN QueryItem("RangeFrom", start, EmptyKey)
     ELSE IF end_inclusive THEN QueryItem("RangeInclusive", start, end)
     ELSE QueryItem("Range", start, end)

is_range(i) == i.t # "Key"

cmp(self, other) ==
  LET cmp_lu == IF lower_unbounded(self)
                  THEN (IF lower_unbounded(other) THEN "Equal" ELSE "Less")
                ELSE IF lower_unbounded(other) THEN "Greater"
                ELSE KeyCmp(lower_bound(self)[1], upper_bound(other)[1])
      cmp_ul == IF upper_unbounded(self)
                  THEN (IF upper_unbounded(other) THEN "Equal" ELSE "Greater")
                ELSE IF upper_unbounded(other) THEN "Less"
                ELSE KeyCmp(upper_bound(self)[1], lower_bound(other)[1])
      self_inclusive == upper_bound(self)[2]
      other_inclusive == upper_bound(other)[2]
  IN CASE cmp_lu = "Less" /\ cmp_ul = "Less" -> "Less"
       [] cmp_lu = "Less" /\ cmp_ul = "Equal" ->
            (IF self_inclusive THEN "Equal" ELSE "Less")
       [] cmp_lu = "Less" /\ cmp_ul = "Greater" -> "Equal"
       [] cmp_lu = "Equal" -> (IF other_inclusive THEN "Equal" ELSE "Greater")
       [] cmp_lu = "Greater" -> "Greater"

\* ------------------------------------------------------ Query (BTreeSet)
\* The BTreeSet<QueryItem> is the sequence of its elements in tree order.
\* The sets of the model stay below the capacity of one B-tree node, whose
\* search is the linear scan below: the first element the probe is not
\* Greater than decides (Equal: found at i, Less: vacant edge i).
RECURSIVE find_key_index(_, _, _)
find_key_index(items, probe, i) ==
  IF i > Len(items) THEN [found |-> FALSE, idx |-> i]
  ELSE LET o == cmp(probe, items[i])
       IN IF o = "Greater" THEN find_key_index(items, probe, i + 1)
          ELSE [found |-> (o = "Equal"), idx |-> i]

RemoveAt(seq, i) == SubSeq(seq, 1, i - 1) \o SubSeq(seq, i + 1, Len(seq))
InsertAt(seq, i, x) == SubSeq(seq, 1, i - 1) \o <<x>> \o SubSeq(seq, i, Len(seq))

\* BTreeSet::insert: an equal element already present is kept as it is
btree_insert(items, item) ==
  LET r == find_key_index(items, item, 1)
  IN IF r.found THEN items ELSE InsertAt(items, r.idx, item)

\* Query::new_with_direction
new_with_direction(left_to_right) ==
  [items |-> <<>>, subquery_key |-> None, subquery |-> None,
   left_to_right |-> left_to_right]

insert_key(q, key) ==
  [q EXCEPT !.items = btree_insert(q.items, QueryItem("Key", key, key))]

\* the while-let loop of insert_item: take the colliding element, merge
RECURSIVE insert_item_loop(_, _)
insert_item_loop(items, item) ==
  LET r == find_key_index(items, item, 1)
  IN IF r.found
       THEN The({insert_item_loop(next[1], next[2]) :
                   next \in {<<RemoveAt(items, r.idx), merge(item, items[r.idx])>>}})
       ELSE btree_insert(items, item)

insert_item(q, item) == [q EXCEPT !.items = insert_item_loop(q.items, item)]

insert_range(q, s, e) == insert_item(q, QueryItem("Range", s, e))
insert_range_inclusive(q, s, e) == insert_item(q, QueryItem("RangeInclusive", s, e))
insert_range_to_inclusive(q, e) == insert_item(q, QueryItem("RangeToInclusive", EmptyKey, e))
insert_range_from(q, s) == insert_item(q, QueryItem("RangeFrom", s, EmptyKey))
insert_range_to(q, e) == insert_item(q, QueryItem("RangeTo", EmptyKey, e))
insert_range_after(q, s) == insert_item(q, QueryItem("RangeAfter", s, EmptyKey))
insert_range_after_to(q, s, e) == insert_item(q, QueryItem("RangeAfterTo", s, e))
insert_range_after_to_inclusive(q, s, e) ==
  insert_item(q, QueryItem("RangeAfterToInclusive", s, e))
insert_all(q) == insert_item(q, QueryItem("RangeFull", EmptyKey, EmptyKey))

set_subquery_key(q, key) == [q EXCEPT !.subquery_key = Some(key)]
set_subquery(q, sub) == [q EXCEPT !.subquery = Some(sub)]

\* ------------------------------------------------------------ raw iterator
\* The raw iterator of a subtree walks the backend's keys, of which the
\* subtree's own keys (keys, ascending) are a contiguous run.  pos is the
\* position in that run: 1..Len(keys) on a key of the subtree, 0 before the
\* run and Len(keys)+1 after it.  After the run the iterator is either on
\* the first key of a larger prefix (it.after: the backend holds one) or
\* invalid; in both cases it is not valid for the subtree, but prev steps
\* back into the run only from the former.
RECURSIVE SortedSeq(_)
SortedSeq(S) ==
  IF S = {} THEN <<>>
  ELSE LET m == CHOOSE x \in S : \A y \in S : x <= y
       IN <<m>> \o SortedSeq(S \ {m})

iter_valid(it) == it.pos >= 1 /\ it.pos <= Len(it.keys)
iter_key(it) == IF iter_valid(it) THEN Some(it.keys[it.pos]) ELSE None

iter_seek(it, key) ==
  [it EXCEPT !.pos = Cardinality({j \in 1..Len(it.keys) : it.keys[j] < key}) + 1]
iter_seek_for_prev(it, key) ==
  [it EXCEPT !.pos = Cardinality({j \in 1..Len(it.keys) : it.keys[j] <= key})]
iter_seek_to_first(it) == [it EXCEPT !.pos = 1]
iter_seek_to_last(it) == [it EXCEPT !.pos = Len(it.keys)]
iter_next(it) == IF iter_valid(it) THEN [it EXCEPT !.pos = it.pos + 1] ELSE it
iter_prev(it) ==
  IF iter_valid(it) \/ (it.pos = Len(it.keys) + 1 /\ it.after)
    THEN [it EXCEPT !.pos = it.pos - 1] ELSE it

seek_for_iter(item, it, left_to_right) ==
  LET skip_start(i2) == IF iter_key(i2) = Some(item.start) THEN iter_next(i2) ELSE i2
  IN CASE item.t = "Key" -> it
       [] item.t = "Range" ->
            IF left_to_right THEN iter_seek(it, item.start)
            ELSE iter_prev(iter_seek(it, item.end))
       [] item.t = "RangeInclusive" ->
            iter_seek(it, IF left_to_right THEN item.start ELSE item.end)
       [] item.t = "RangeFull" ->
            IF left_to_right THEN iter_seek_to_first(it) ELSE iter_seek_to_last(it)
       [] item.t = "RangeFrom" ->
            IF left_to_right THEN iter_seek(it, item.start) ELSE iter_seek_to_last(it)
       [] item.t = "RangeTo" ->
            IF left_to_right THEN iter_seek_to_first(it)
            ELSE iter_prev(iter_seek(it, item.end))
       [] item.t = "RangeToInclusive" ->
            IF left_to_right THEN iter_seek_to_first(it)
            ELSE iter_seek_for_prev(it, item.end)
       [] item.t = "RangeAfter" ->
            IF left_to_right THEN skip_start(iter_seek(it, item.start))
            ELSE iter_seek_to_last(it)
       [] item.t = "RangeAfterTo" ->
            IF left_to_right THEN skip_start(iter_seek(it, item.start))
            ELSE iter_prev(iter_seek(it, item.end))
       [] item.t = "RangeAfterToInclusive" ->
            IF left_to_right THEN skip_start(iter_seek(it, item.start))
            ELSE iter_seek_for_prev(it, item.end)

\* a validity test that takes every bounded end as inclusive
iter_is_valid_inclusive_ends(item, it, limit, left_to_right) ==
  \/ item.t = "Key"
  \/ /\ limit = None \/ Unwrap(limit) > 0 \/ item.t = "RangeInclusive"
     /\ iter_valid(it)
     /\ IF left_to_right
          THEN upper_unbounded(item) \/ Unwrap(iter_key(it)) <= item.end
          ELSE lower_unbounded(item) \/ Unwrap(iter_key(it)) >= item.start

iter_is_valid_for_type(item, it, limit, left_to_right) ==
  LET limit_ok == limit = None \/ Unwrap(limit) > 0
      has_key == iter_valid(it) /\ IsSome(iter_key(it))
      key == Unwrap(iter_key(it))
  IN CASE item.t = "Key" -> TRUE
       [] item.t = "Range" ->
            limit_ok /\ has_key
            /\ (IF left_to_right THEN key < item.end ELSE key >= item.start)
       [] item.t = "RangeInclusive" ->
            has_key
            /\ (IF left_to_right THEN key <= item.end ELSE key >= item.start)
       [] item.t = "RangeFull" -> limit_ok /\ has_key
       [] item.t = "RangeFrom" ->
            limit_ok /\ has_key /\ (IF left_to_right THEN TRUE ELSE key >= item.start)
       [] item.t = "RangeTo" ->
            limit_ok /\ has_key /\ (IF left_to_right THEN key < item.end ELSE TRUE)
       [] item.t = "RangeToInclusive" ->
            limit_ok /\ has_key /\ (IF left_to_right THEN key <= item.end ELSE TRUE)
       [] item.t = "RangeAfter" ->
            limit_ok /\ has_key /\ (IF left_to_right THEN TRUE ELSE key > item.start)
       [] item.t = "RangeAfterTo" ->
            limit_ok /\ has_key
            /\ (IF left_to_right THEN key < item.end ELSE key > item.start)
       [] item.t = "RangeAfterToInclusive" ->
            limit_ok /\ has_key
            /\ (IF left_to_right THEN KeyCmp(key, item.end) # "Greater"
                ELSE KeyCmp(key, item.start) = "Greater")

\* ------------------------------------------------------------- elements
Item(v) == [type |-> "Item", value |-> v]
Tree == [type |-> "Tree", value |-> 0]

SizedQuery(query, limit, offset) == [query |-> query, limit |-> limit, offset |-> offset]
PathQuery(path, sized) == [path |-> path, query |-> sized]

\* u16 subtraction: an overflow panics in a build with overflow checks and
\* wraps in a build without them
Sub16(a, b, checks) ==
  IF a >= b THEN Some(a - b)
  ELSE IF checks THEN None
  ELSE Some((a - b) % U16)

\* `*counter -= n` on an Option<u16> that is Some; a panic ends the run
SubAssign(st, field, n, env) ==
  LET r == Sub16(Unwrap(st[field]), n, env.checks)
  IN IF r = None THEN [st EXCEPT !.status = "panic"]
     ELSE [st EXCEPT ![field] = Some(Unwrap(r))]

unwrap_or(o, d) == IF IsSome(o) THEN Unwrap(o) ELSE d

\* Subtrees::borrow_mut: the Merk at a path, an error when there is none
borrow_mut(env, path) ==
  IF path \in DOMAIN env.db THEN Some(env.db[path]) ELSE None

\* Element::get: Merk::get, absence is PathKeyNotFound
get(merk, key) == IF key \in DOMAIN merk THEN Some(merk[key]) ELSE None

basic_push(st, element, env) ==
  IF unwrap_or(st.offset, 0) = 0
    THEN LET pushed == [st EXCEPT !.results = Append(st.results, element)]
         IN IF IsSome(st.limit) THEN SubAssign(pushed, "limit", 1, env) ELSE pushed
  ELSE IF IsSome(st.offset) THEN SubAssign(st, "offset", 1, env)
  ELSE st

\* path_query_push after the inner get_path_query returned (sub_elements,
\* skipped): limit and offset are reduced by what the inner query used up,
\* then the elements are appended
\* an append that leaves the limit as it was before the inner query
append_sub_elements_keep_limit(st, sub_elements, skipped, env) ==
  LET st2 == IF IsSome(st.offset) THEN SubAssign(st, "offset", skipped, env) ELSE st
  IN IF st2.status # "ok" THEN st2
     ELSE [st2 EXCEPT !.results = st2.results \o sub_elements]

append_sub_elements(st, sub_elements, skipped, env) ==
  LET st1 == IF IsSome(st.limit)
               THEN SubAssign(st, "limit", Len(sub_elements) % U16, env)
               ELSE st
      st2 == IF st1.status = "ok" /\ IsSome(st1.offset)
               THEN SubAssign(st1, "offset", skipped, env)
               ELSE st1
  IN IF st2.status # "ok" THEN st2
     ELSE [st2 EXCEPT !.results = st2.results \o sub_elements]

RECURSIVE get_query_apply_function(_, _, _, _)
RECURSIVE get_path_query(_, _, _)
RECURSIVE path_query_push(_, _, _)
RECURSIVE query_item(_, _, _, _, _, _)
RECURSIVE query_item_loop(_, _, _, _, _, _, _)
RECURSIVE query_items(_, _, _, _, _, _, _)

\* args: key, element, path, subquery_key, subquery (PathQueryPushArgs)
path_query_push(st, args, env) ==
  IF args.element.type = "Tree"
    THEN IF args.path = None THEN [st EXCEPT !.status = "MissingParameter"]
         ELSE
         LET path_vec == Append(Unwrap(args.path), args.key)
         IN IF IsSome(args.subquery)
              THEN LET path_vec2 == IF IsSome(args.subquery_key)
                                      THEN Append(path_vec, Unwrap(args.subquery_key))
                                      ELSE path_vec
                       inner_query == SizedQuery(Unwrap(args.subquery), st.limit, st.offset)
                   IN The({LET st0 == [st EXCEPT
                                         !.descents = st.descents + 1 + inner.descents,
                                         !.acct = st.acct /\ inner.acct]
                           IN IF inner.status # "ok"
                                THEN [st0 EXCEPT !.status = inner.status]
                              ELSE append_sub_elements(st0, inner.results,
                                                       inner.skipped, env) :
                             inner \in {get_path_query(path_vec2,
                                                       PathQuery(path_vec2, inner_query),
                                                       env)}})
            ELSE IF IsSome(args.subquery_key)
              THEN IF unwrap_or(st.offset, 0) = 0
                     THEN LET merk == borrow_mut(env, path_vec)
                              element == get(Unwrap(merk), Unwrap(args.subquery_key))
                          IN IF merk = None THEN [st EXCEPT !.status = "InvalidPath"]
                             ELSE IF element = None
                               THEN [st EXCEPT !.status = "PathKeyNotFound"]
                             ELSE LET pushed == [st EXCEPT !.results =
                                                   Append(st.results, Unwrap(element))]
                                  IN IF IsSome(st.limit)
                                       THEN SubAssign(pushed, "limit", 1, env)
                                       ELSE pushed
                   ELSE IF IsSome(st.offset) THEN SubAssign(st, "offset", 1, env)
                   ELSE st
            ELSE [st EXCEPT !.status = "InvalidPath"]
  ELSE basic_push(st, args.element, env)

PushArgs(key, element, path, query) ==
  [key |-> key, element |-> element, path |-> path,
   subquery_key |-> query.subquery_key, subquery |-> query.subquery]

\* the while loop of query_item over the raw iterator
query_item_loop(item, it, st, merk, query, path, env) ==
  IF st.status # "ok" THEN st
  ELSE IF ~iter_is_valid_for_type(item, it, st.limit, query.left_to_right) THEN st
  ELSE LET key == Unwrap(iter_key(it))
       IN The({query_item_loop(item,
                               IF query.left_to_right THEN iter_next(it) ELSE iter_prev(it),
                               st1, merk, query, path, env) :
                 st1 \in {path_query_push(st, PushArgs(key, merk[key], path, query), env)}})

query_item(item, st, merk_path, query, path, env) ==
  LET merk == borrow_mut(env, merk_path)
  IN IF merk = None THEN [st EXCEPT !.status = "InvalidPath"]
     ELSE IF ~is_range(item)
       THEN LET element == get(Unwrap(merk), item.start)
            IN IF element = None THEN st
               ELSE path_query_push(st, PushArgs(item.start, Unwrap(element), path, query), env)
     ELSE LET it0 == [keys |-> SortedSeq(DOMAIN Unwrap(merk)), pos |-> 0,
                      after |-> env.after]
          IN The({query_item_loop(item, it, st, Unwrap(merk), query, path, env) :
                    it \in {seek_for_iter(item, it0, query.left_to_right)}})

\* the for loop of get_query_apply_function over query.iter() / rev_iter()
query_items(items, i, st, merk_path, query, path, env) ==
  IF i > Len(items) THEN st
  ELSE The({IF st1.status # "ok" THEN st1
            ELSE IF st1.limit = Some(0) THEN st1
            ELSE query_items(items, i + 1, st1, merk_path, query, path, env) :
              st1 \in {query_item(items[i], st, merk_path, query, path, env)}})

Reverse(seq) == [i \in 1..Len(seq) |-> seq[Len(seq) + 1 - i]]

get_query_apply_function(merk_path, sized_query, path, env) ==
  LET query == sized_query.query
      st0 == [results |-> <<>>, limit |-> sized_query.limit,
              offset |-> sized_query.offset, status |-> "ok",
              descents |-> 0, acct |-> TRUE]
      order == IF query.left_to_right THEN query.items ELSE Reverse(query.items)
  IN The({
       LET skipped == IF IsSome(sized_query.offset)
                        THEN Sub16(Unwrap(sized_query.offset), Unwrap(st.offset), env.checks)
                        ELSE Some(0)
           failed == [status |-> st.status, results |-> <<>>, skipped |-> 0,
                      limit |-> st.limit, offset |-> st.offset,
                      descents |-> st.descents, acct |-> st.acct]
       IN IF st.status # "ok" THEN failed
          ELSE IF skipped = None THEN [failed EXCEPT !.status = "panic"]
          ELSE [status |-> "ok", results |-> st.results, skipped |-> Unwrap(skipped),
                limit |-> st.limit, offset |-> st.offset, descents |-> st.descents,
                acct |-> /\ st.acct
                         /\ IsSome(sized_query.limit) =>
                              (Unwrap(sized_query.limit) - Unwrap(st.limit)) % U16
                                = Len(st.results) % U16
                         /\ IsSome(sized_query.offset) =>
                              (Unwrap(sized_query.offset) - Unwrap(st.offset)) % U16
                                = Unwrap(skipped)] :
         st \in {query_items(order, 1, st0, merk_path, query, path, env)}})

get_path_query(merk_path, path_query, env) ==
  get_query_apply_function(merk_path, path_query.query, Some(path_query.path), env)

get_sized_query(merk_path, sized_query, env) ==
  get_query_apply_function(merk_path, sized_query, None, env)

get_query(merk_path, query, env) ==
  get_sized_query(merk_path, SizedQuery(query, None, None), env)

\* ------------------------------------------------------- storage contexts
\* byte strings are sequences of bytes. The prefixes and keys the model
\* draws from hold a prefix that another prefix starts with
Prefixes == {<<1>>, <<2>>, <<1, 2>>}
StorageKeys == {<<1>>, <<2, 1>>}
Values == {1, 2}

\* the column families: the default one and AUX_CF_NAME, ROOTS_CF_NAME,
\* META_CF_NAME
CFs == {"default", "aux", "roots", "meta"}
\* the column families a PrefixedRocksDbBatch has a handle for
BatchCFs == {"default", "aux", "roots"}

make_prefixed_key(prefix, key) == prefix \o key
PrefixedKeys == {make_prefixed_key(p, k) : p \in Prefixes, k \in StorageKeys}

\* the backend: column family -> key -> None | Some(value)
NoEntries == [k \in PrefixedKeys |-> None]
EmptyStore == [cf \in CFs |-> NoEntries]

\* PrefixedRocksDbStorageContext: put / put_aux / put_root / put_meta,
\* delete.., get.., by column family
storage_put(s, prefix, cf, key, value) ==
  [s EXCEPT ![cf][make_prefixed_key(prefix, key)] = Some(value)]
storage_delete(s, prefix, cf, key) ==
  [s EXCEPT ![cf][make_prefixed_key(prefix, key)] = None]
storage_get(s, prefix, cf, key) == s[cf][make_prefixed_key(prefix, key)]

\* a transaction: its write set holds Some(Some(v)) for a put, Some(None)
\* for a delete; stale says a key of the write set was written outside the
\* transaction after the transaction wrote it
NoTx == [state |-> "none", writes |-> [cf \in CFs |-> NoEntries], stale |-> FALSE]

tx_put(t, prefix, cf, key, value) ==
  [t EXCEPT !.writes[cf][make_prefixed_key(prefix, key)] = Some(Some(value))]
tx_delete(t, prefix, cf, key) ==
  [t EXCEPT !.writes[cf][make_prefixed_key(prefix, key)] = Some(None)]
tx_get(s, t, prefix, cf, key) ==
  LET w == t.writes[cf][make_prefixed_key(prefix, key)]
  IN IF w # None THEN Unwrap(w) ELSE storage_get(s, prefix, cf, key)

\* a commit that writes nothing
commit_nothing(s, t) == s

\* Transaction::commit: the write set lands on the backend as a whole
commit(s, t) ==
  [cf \in CFs |-> [k \in PrefixedKeys |->
     IF t.writes[cf][k] # None THEN Unwrap(t.writes[cf][k]) ELSE s[cf][k]]]

\* a rollback that keeps the write set
rollback_keep(t) == t

\* Transaction::rollback: the write set is dropped, the handle stays open
rollback(t) == [t EXCEPT !.writes = NoTx.writes, !.stale = FALSE]

Written(t) == {c \in CFs \X PrefixedKeys : t.writes[c[1]][c[2]] # None}

\* a write outside the transaction to a key of its write set
touch(t, cf, k) ==
  IF t.state = "open" /\ t.writes[cf][k] # None THEN [t EXCEPT !.stale = TRUE] ELSE t

\* a batch: the operations gathered so far, with prefixed keys; a value of
\* None is a delete
NoBatch == [state |-> "none", prefix |-> <<>>, transactional |-> FALSE, ops |-> <<>>]

batch_put(b, cf, key, value) ==
  [b EXCEPT !.ops = Append(@, [cf |-> cf, key |-> make_prefixed_key(b.prefix, key),
                               value |-> Some(value)])]
batch_delete(b, cf, key) ==
  [b EXCEPT !.ops = Append(@, [cf |-> cf, key |-> make_prefixed_key(b.prefix, key),
                               value |-> None])]

\* DB::write of a batch
RECURSIVE write(_, _)

\* a write that stops after the first operation of the batch
write_first(s, ops) ==
  IF Len(ops) = 0 THEN s
  ELSE [s EXCEPT ![Head(ops).cf][Head(ops).key] = Head(ops).value]

write(s, ops) ==
  IF Len(ops) = 0 THEN s
  ELSE write([s EXCEPT ![Head(ops).cf][Head(ops).key] = Head(ops).value], Tail(ops))

\* the operations of a batch, done on the transaction
RECURSIVE tx_write(_, _)
tx_write(t, ops) ==
  IF Len(ops) = 0 THEN t
  ELSE tx_write([t EXCEPT !.writes[Head(ops).cf][Head(ops).key] = Some(Head(ops).value)],
                Tail(ops))

RECURSIVE touch_all(_, _)
touch_all(t, ops) ==
  IF Len(ops) = 0 THEN t
  ELSE touch_all(touch(t, Head(ops).cf, Head(ops).key), Tail(ops))

NoStoreOut ==
  [op |-> "none", prefix |-> <<>>, cf |-> "default", key |-> <<>>,
   value |-> None, transactional |-> FALSE, status |-> "none", applied |-> 0,
   walk |-> <<>>]

NoProducer ==
  [trunk |-> <<>>, chunk_boundaries |-> <<>>,
   raw_iter |-> [keys |-> <<>>, pos |-> 1, after |-> FALSE], index |-> 0]
NoChunkOut ==
  [op |-> "none", index_in |-> 0, status |-> "none", chunk |-> <<>>,
   yielded |-> 0, random |-> FALSE, index_was |-> 0]

\* ------------------------------------------------------------ Tree encoding
\* the outcome of the last encode or decode of a Tree node
NoEncOut ==
  [op |-> "none", status |-> "none", bytes |-> <<>>, key_in |-> <<>>,
   tree |-> None]

\* ------------------------------------------------------ Elements of a Merk
\* the outcome of the last insert, delete or get of an Element
NoElemOut ==
  [op |-> "none", key |-> <<>>, status |-> "none", element |-> None]

\* ------------------------------------------------------------------ state
VARIABLES
  qa, qb,      \* two QueryItems, the operands of cmp and merge
  itemOut,     \* the result of the last cmp / merge of qa and qb
  db,          \* the subtrees: path -> Merk, a Merk being key -> Element
  query,       \* the Query under construction
  covered,     \* the keys contained in some item ever inserted into query
  ninserts,    \* number of insert calls made on query
  out,         \* the outcome of the last query run against db
  tree,        \* the Merk tree a proof is made of
  proofOut,    \* the outcome of the last proof made or verified
  store,       \* the backend: column family -> prefixed key -> value
  tx,          \* the transaction started on the backend, if any
  batch,       \* the batch made by a storage context, if any
  storeOut,    \* the last operation on the storage and its outcome
  nwrites,     \* number of puts and deletes made on the storage
  producer,    \* the ChunkProducer
  chunkOut,    \* the outcome of the last call on the ChunkProducer
  encIn,       \* the Tree node that is encoded
  encOut,      \* the outcome of the last encode or decode
  elemMerk,    \* a Merk as Element reads and writes it: key -> value bytes
  elemLast,    \* for each key, the Element last inserted and not deleted
  elemOut      \* the outcome of the last insert, delete or get

queryVars == <<qa, qb, itemOut, db, query, covered, ninserts, out>>
proofVars == <<tree, proofOut>>
storageVars == <<store, tx, batch, storeOut, nwrites>>
chunkVars == <<producer, chunkOut>>
encVars == <<encIn, encOut>>
elemVars == <<elemMerk, elemLast, elemOut>>

\* the state outside the query engine, which the query engine leaves alone
otherVars ==
  <<proofVars, storageVars, chunkVars, encVars, elemVars>>

vars == <<queryVars, otherVars>>

NoProof ==
  [op |-> "none", proof |-> <<>>, absence |-> <<FALSE, FALSE>>,
   status |-> "none", output |-> <<>>, limit_in |-> None,
   offset_in |-> None, limit |-> None, offset |-> None]

ProofIdle ==
  /\ tree = None
  /\ proofOut = NoProof

StorageIdle ==
  /\ store = EmptyStore
  /\ tx = NoTx
  /\ batch = NoBatch
  /\ storeOut = NoStoreOut
  /\ nwrites = 0

ChunkIdle ==
  /\ producer = NoProducer
  /\ chunkOut = NoChunkOut

EncIdle ==
  /\ encIn = None
  /\ encOut = NoEncOut

ElemIdle ==
  /\ elemMerk = <<>>
  /\ elemLast = <<>>
  /\ elemOut = NoElemOut

OtherIdle ==
  /\ ProofIdle
  /\ StorageIdle
  /\ ChunkIdle
  /\ EncIdle
  /\ ElemIdle

QueryIdle ==
  /\ qa = QueryItem("Key", 0, 0)
  /\ qb = QueryItem("Key", 0, 0)
  /\ itemOut = [op |-> "none", ord |-> "none", item |-> QueryItem("Key", 0, 0)]
  /\ covered = {}
  /\ ninserts = 0

RootPath == <<>>
Span(i) == {k \in Keys : contains(i, k)}

NoItemOut == [op |-> "none", ord |-> "none", item |-> QueryItem("Key", 0, 0)]
NoRun ==
  [op |-> "none", limit_in |-> None, offset_in |-> None,
   checks |-> FALSE, after |-> FALSE, status |-> "none",
   results |-> <<>>, skipped |-> 0, limit |-> None, offset |-> None,
   descents |-> 0, acct |-> TRUE]

Limits == {None} \cup {Some(n) : n \in 0..MaxLimit}
Offsets == {None} \cup {Some(n) : n \in 0..MaxOffset}

\* the builds and backends a run can happen in: overflow checks on or off,
\* keys of a larger prefix after the subtree's keys or not
Envs == [checks : BOOLEAN, after : BOOLEAN]
Env(e) == [db |-> db, checks |-> e.checks, after |-> e.after]

Run(op, limit, offset, e, r) ==
  [op |-> op, limit_in |-> limit, offset_in |-> offset,
   checks |-> e.checks, after |-> e.after, status |-> r.status,
   results |-> r.results, skipped |-> r.skipped, limit |-> r.limit,
   offset |-> r.offset, descents |-> r.descents, acct |-> r.acct]

\* the value stored under a key of a subtree
ValueAt(path, key) == 10 * Len(path) + key

\* ---------------------------------------------------------------- actions
\* the number of elements stored in all subtrees
RECURSIVE SumOver(_, _)
SumOver(S, f) ==
  IF S = {} THEN 0
  ELSE LET x == CHOOSE y \in S : TRUE
       IN Cardinality(DOMAIN f[x]) + SumOver(S \ {x}, f)
StoredCount == SumOver(DOMAIN db, db)

\* Merk::apply of a Put: the entry under key is set
Put(merk, key, element) ==
  [x \in DOMAIN merk \cup {key} |-> IF x = key THEN element ELSE merk[x]]

\* Element::insert of an Item into the subtree at path
ElementInsert(path, k) ==
  /\ path \in DOMAIN db
  /\ k \notin DOMAIN db[path]
  /\ StoredCount < MaxStored
  /\ db' = [db EXCEPT ![path] = Put(db[path], k, Item(ValueAt(path, k)))]
  /\ out' = NoRun
  /\ UNCHANGED <<qa, qb, itemOut, query, covered, ninserts, otherVars>>

Inserted(q, item) ==
  /\ ninserts < MaxInserts
  /\ query' = q
  /\ covered' = covered \cup Span(item)
  /\ ninserts' = ninserts + 1
  /\ out' = NoRun
  /\ UNCHANGED <<qa, qb, itemOut, db, otherVars>>

InsertKey(k) == Inserted(insert_key(query, k), QueryItem("Key", k, k))
InsertRange(s, e) == Inserted(insert_range(query, s, e), QueryItem("Range", s, e))
InsertRangeInclusive(s, e) ==
  Inserted(insert_range_inclusive(query, s, e), QueryItem("RangeInclusive", s, e))
InsertRangeToInclusive(e) ==
  Inserted(insert_range_to_inclusive(query, e), QueryItem("RangeToInclusive", EmptyKey, e))
InsertRangeFrom(s) ==
  Inserted(insert_range_from(query, s), QueryItem("RangeFrom", s, EmptyKey))
InsertRangeTo(e) ==
  Inserted(insert_range_to(query, e), QueryItem("RangeTo", EmptyKey, e))
InsertRangeAfter(s) ==
  Inserted(insert_range_after(query, s), QueryItem("RangeAfter", s, EmptyKey))
InsertRangeAfterTo(s, e) ==
  Inserted(insert_range_after_to(query, s, e), QueryItem("RangeAfterTo", s, e))
InsertRangeAfterToInclusive(s, e) ==
  Inserted(insert_range_after_to_inclusive(query, s, e),
           QueryItem("RangeAfterToInclusive", s, e))
InsertAll == Inserted(insert_all(query), QueryItem("RangeFull", EmptyKey, EmptyKey))
InsertItem(item) == Inserted(insert_item(query, item), item)

\* Element::get_query on the subtree at RootPath
GetQuery(e) ==
  /\ out = NoRun
  /\ \E r \in {get_query(RootPath, query, Env(e))} :
       out' = Run("get_query", None, None, e, r)
  /\ UNCHANGED <<qa, qb, itemOut, db, query, covered, ninserts, otherVars>>

\* Element::get_sized_query on the subtree at RootPath
GetSizedQuery(limit, offset, e) ==
  /\ out = NoRun
  /\ \E r \in {get_sized_query(RootPath, SizedQuery(query, limit, offset), Env(e))} :
       out' = Run("get_sized_query", limit, offset, e, r)
  /\ UNCHANGED <<qa, qb, itemOut, db, query, covered, ninserts, otherVars>>

Init ==
  /\ qa = QueryItem("Key", 0, 0)
  /\ qb = QueryItem("Key", 0, 0)
  /\ itemOut = NoItemOut
  /\ db = (RootPath :> <<>>)
  /\ query \in {new_with_direction(b) : b \in BOOLEAN}
  /\ covered = {}
  /\ ninserts = 0
  /\ out = NoRun
  /\ OtherIdle

Next ==
  \/ \E k \in Keys : ElementInsert(RootPath, k)
  \/ \E k \in BoundKeys : InsertKey(k)
  \/ \E i \in Items : i.t = "Range" /\ InsertRange(i.start, i.end)
  \/ \E i \in Items : i.t = "RangeInclusive" /\ InsertRangeInclusive(i.start, i.end)
  \/ \E k \in BoundKeys : InsertRangeToInclusive(k)
  \/ \E k \in BoundKeys : InsertRangeFrom(k)
  \/ \E k \in BoundKeys : InsertRangeTo(k)
  \/ \E k \in BoundKeys : InsertRangeAfter(k)
  \/ \E i \in Items : i.t = "RangeAfterTo" /\ InsertRangeAfterTo(i.start, i.end)
  \/ \E i \in Items : i.t = "RangeAfterToInclusive"
                        /\ InsertRangeAfterToInclusive(i.start, i.end)
  \/ InsertAll
  \/ \E i \in Items : InsertItem(i)
  \/ \E e \in Envs : GetQuery(e)
  \/ \E l \in Limits, o \in Offsets, e \in Envs : GetSizedQuery(l, o, e)

Spec == Init /\ [][Next]_vars

\* ------------------------------------------- cmp and merge on two items
ItemCmp ==
  /\ itemOut' = [NoItemOut EXCEPT !.op = "cmp", !.ord = cmp(qa, qb)]
  /\ UNCHANGED <<qa, qb, db, query, covered, ninserts, out, otherVars>>

ItemMerge ==
  /\ itemOut' = [NoItemOut EXCEPT !.op = "merge", !.item = merge(qa, qb)]
  /\ UNCHANGED <<qa, qb, db, query, covered, ninserts, out, otherVars>>

InitItem ==
  /\ qa \in Items
  /\ qb \in Items
  /\ itemOut = NoItemOut
  /\ db = (RootPath :> <<>>)
  /\ query = new_with_direction(TRUE)
  /\ covered = {}
  /\ ninserts = 0
  /\ out = NoRun
  /\ OtherIdle

NextItem == ItemCmp \/ ItemMerge

SpecItem == InitItem /\ [][NextItem]_vars

\* ------------------------------------- one range item against a subtree
SingleInsertItem(item) == query.items = <<>> /\ InsertItem(item)

NextSingle ==
  \/ \E k \in Keys : ElementInsert(RootPath, k)
  \/ \E i \in Items : SingleInsertItem(i)
  \/ \E e \in Envs : GetQuery(e)

SpecSingle == Init /\ [][NextSingle]_vars

\* ---------------------------------------------------------------- claims
Overlap(a, b) == Span(a) \cap Span(b) # {}
\* a's inclusive upper end is the key of b's lower end
TouchUp(a, b) ==
  /\ ~upper_unbounded(a) /\ ~lower_unbounded(b)
  /\ upper_bound(a)[2]
  /\ upper_bound(a)[1] = lower_bound(b)[1]
Collide(a, b) == Overlap(a, b) \/ TouchUp(a, b) \/ TouchUp(b, a)
Before(a, b) == \A x \in Span(a), y \in Span(b) : x < y

QueryKeys(q) == UNION {Span(q.items[i]) : i \in 1..Len(q.items)}
Disjoint(q) ==
  \A i, j \in 1..Len(q.items) : i # j => ~Overlap(q.items[i], q.items[j])

\* C1: after any sequence of Query insert calls no two items of the set
\* overlap, and the keys the set contains are exactly the keys contained in
\* the items ever inserted.
C1_DisjointCover == Disjoint(query) /\ QueryKeys(query) = covered

\* C2: a.cmp(b) is Equal iff the spans overlap or touch at an inclusive
\* endpoint; otherwise Less when a lies entirely before b and Greater when
\* it lies entirely after.
C2_CmpBySpan ==
  itemOut.op = "cmp" =>
    /\ (itemOut.ord = "Equal") <=> Collide(qa, qb)
    /\ ~Collide(qa, qb) =>
         /\ Before(qa, qb) => itemOut.ord = "Less"
         /\ Before(qb, qa) => itemOut.ord = "Greater"

\* the smallest span over both arguments, end by end
Hull(a, b) == {k \in Keys : \E x, y \in Span(a) \cup Span(b) : x <= k /\ k <= y}
LowerOf(a, b) ==
  IF lower_unbounded(a) \/ lower_unbounded(b) THEN <<"unbounded", 0, FALSE>>
  ELSE LET la == lower_bound(a)
           lb == lower_bound(b)
       IN IF la[1] < lb[1] THEN <<"bounded", la[1], la[2]>>
          ELSE IF lb[1] < la[1] THEN <<"bounded", lb[1], lb[2]>>
          ELSE <<"bounded", la[1], la[2] /\ lb[2]>>
UpperOf(a, b) ==
  IF upper_unbounded(a) \/ upper_unbounded(b) THEN <<"unbounded", 0, TRUE>>
  ELSE LET ua == upper_bound(a)
           ub == upper_bound(b)
       IN IF ua[1] > ub[1] THEN <<"bounded", ua[1], ua[2]>>
          ELSE IF ub[1] > ua[1] THEN <<"bounded", ub[1], ub[2]>>
          ELSE <<"bounded", ua[1], ua[2] \/ ub[2]>>
LowerEnd(i) ==
  IF lower_unbounded(i) THEN <<"unbounded", 0, FALSE>>
  ELSE <<"bounded", lower_bound(i)[1], lower_bound(i)[2]>>
UpperEnd(i) ==
  IF upper_unbounded(i) THEN <<"unbounded", 0, TRUE>>
  ELSE <<"bounded", upper_bound(i)[1], upper_bound(i)[2]>>

\* C3: for two items that overlap or compare Equal, merge returns the
\* smallest item containing every key of either: the lower end is the
\* smaller lower bound (unbounded if either is, exclusive only if that bound
\* is an 'after' bound), the upper end the larger upper bound (unbounded if
\* either is, inclusive if either is inclusive there).
C3_MergeIsHull ==
  (itemOut.op = "merge" /\ (Overlap(qa, qb) \/ cmp(qa, qb) = "Equal")) =>
    /\ Span(itemOut.item) = Hull(qa, qb)
    /\ LowerEnd(itemOut.item) = LowerOf(qa, qb)
    /\ UpperEnd(itemOut.item) = UpperOf(qa, qb)

\* a merge of two items that compare Equal without sharing a key: the first
\* ends inclusively on the key the second, an 'after' range, starts behind
C3_Witness ==
  /\ itemOut.op = "merge"
  /\ cmp(qa, qb) = "Equal" /\ ~Overlap(qa, qb)
  /\ qb.t = "RangeAfterTo"
  /\ itemOut.item = QueryItem("Range", qa.start, qb.end)

\* the elements stored under the keys of S, ascending
ElementsOf(merk, S) ==
  LET ks == SortedSeq(S \cap DOMAIN merk) IN [i \in 1..Len(ks) |-> merk[ks[i]]]

\* C4: a query of a single range item, left to right, without limit and
\* offset, returns exactly the elements whose keys the item contains, in
\* ascending key order.
C4_RangeForward ==
  (/\ out.op = "get_query"
   /\ Len(query.items) = 1
   /\ is_range(query.items[1])
   /\ query.left_to_right) =>
    /\ out.status = "ok"
    /\ out.results = ElementsOf(db[RootPath], Span(query.items[1]))

\* an exclusive upper bound and an 'after' lower bound that are both stored
\* keys left out, the key between them returned
C4_Witness ==
  /\ out.op = "get_query"
  /\ query.left_to_right
  /\ query.items = <<QueryItem("RangeAfterTo", 2, 4)>>
  /\ DOMAIN db[RootPath] = {2, 3, 4}
  /\ out.results = <<Item(3)>>

\* the environment the last run happened in
OutEnv == Env([checks |-> out.checks, after |-> out.after])
Min(a, b) == IF a <= b THEN a ELSE b

\* C5: without limit and offset, the result of a right-to-left run is the
\* reverse of the result of the left-to-right run of the same query.  Stated
\* for the backends that hold a key after the subtree's keys, where stepping
\* back from behind the subtree's last key is defined.
C5_ReverseIsMirror ==
  (out.op = "get_query" /\ ~query.left_to_right /\ out.after) =>
    /\ out.status = "ok"
    /\ out.results =
         Reverse(get_query(RootPath, [query EXCEPT !.left_to_right = TRUE], OutEnv).results)

\* C6: with limit = Some(n), get_sized_query returns at most n elements.
C6_AtMostLimit ==
  (out.op = "get_sized_query" /\ IsSome(out.limit_in) /\ out.status = "ok") =>
    Len(out.results) <= Unwrap(out.limit_in)

\* C7: offset is consumed before limit: of the matches m_1..m_k in iteration
\* order a run with offset o and limit l returns m_(o+1)..m_(min(k, o+l)),
\* all of m_(o+1)..m_k without a limit, and reports min(o, k) as skipped.
\* Stated for the runs that are given no limit or a limit above zero.
C7_OffsetThenLimit ==
  (out.op = "get_sized_query" /\ out.status = "ok" /\ out.limit_in # Some(0)) =>
    LET m == get_sized_query(RootPath, SizedQuery(query, None, None), OutEnv).results
        k == Len(m)
        o == unwrap_or(out.offset_in, 0)
        hi == IF IsSome(out.limit_in) THEN Min(k, o + Unwrap(out.limit_in)) ELSE k
    IN /\ out.results = SubSeq(m, o + 1, hi)
       /\ out.skipped = Min(o, k)

\* C9: a left-to-right query without limit and offset returns each stored
\* element whose key matches the query exactly once, in ascending key order.
C9_EachOnceAscending ==
  (out.op = "get_query" /\ query.left_to_right) =>
    /\ out.status = "ok"
    /\ out.results = ElementsOf(db[RootPath], QueryKeys(query))

\* ----------------------------------------- path queries over nested trees

\* GroveDb::insert of Element::empty_tree(): the Tree element under key and
\* the empty subtree at path ++ [key]
InsertTree(path, k) ==
  /\ path \in DOMAIN db
  /\ k \notin DOMAIN db[path]
  /\ StoredCount < MaxStored
  /\ db' = [p \in DOMAIN db \cup {Append(path, k)} |->
              IF p = path THEN Put(db[path], k, Tree)
              ELSE IF p = Append(path, k) THEN <<>>
              ELSE db[p]]
  /\ out' = NoRun
  /\ UNCHANGED <<qa, qb, itemOut, query, covered, ninserts, otherVars>>

\* the queries given as subquery: Query::new() with one key or all keys
SubQueries ==
  {insert_key(new_with_direction(TRUE), k) : k \in BoundKeys}
  \cup {insert_all(new_with_direction(TRUE))}

SetSubqueryKey(k) ==
  /\ query.subquery_key # Some(k)
  /\ query' = set_subquery_key(query, k)
  /\ out' = NoRun
  /\ UNCHANGED <<qa, qb, itemOut, db, covered, ninserts, otherVars>>

SetSubquery(sub) ==
  /\ query.subquery # Some(sub)
  /\ query' = set_subquery(query, sub)
  /\ out' = NoRun
  /\ UNCHANGED <<qa, qb, itemOut, db, covered, ninserts, otherVars>>

\* Element::get_path_query on the subtree at RootPath
GetPathQuery(limit, offset, e) ==
  /\ out = NoRun
  /\ \E r \in {get_path_query(RootPath,
                               PathQuery(RootPath, SizedQuery(query, limit, offset)),
                               Env(e))} :
       out' = Run("get_path_query", limit, offset, e, r)
  /\ UNCHANGED <<qa, qb, itemOut, db, query, covered, ninserts, otherVars>>

\* the items of the outer query: one key or all keys
PathItems == {i \in Items : i.t \in {"Key", "RangeFull"}}
\* the seeks of these items never step back from behind the subtree's last
\* key, so the backend's other prefixes make no difference to them
PathEnvs == {e \in Envs : e.after}

NextPath ==
  \/ \E p \in DOMAIN db, k \in BoundKeys : ElementInsert(p, k)
  \/ \E p \in DOMAIN db, k \in BoundKeys : InsertTree(p, k)
  \/ \E i \in PathItems : SingleInsertItem(i)
  \/ \E k \in BoundKeys : SetSubqueryKey(k)
  \/ \E sub \in SubQueries : SetSubquery(sub)
  \/ \E l \in Limits, o \in Offsets, e \in PathEnvs : GetPathQuery(l, o, e)

SpecPath == Init /\ [][NextPath]_vars

C10_AbsenceIsOk ==
  (/\ out.op = "get_path_query"
   /\ Len(query.items) = 1
   /\ ~is_range(query.items[1])
   /\ LET k == query.items[1].start
      IN \/ k \notin DOMAIN db[RootPath]
         \/ /\ db[RootPath][k].type = "Tree"
            /\ query.subquery = None
            /\ IsSome(query.subquery_key)
            /\ Unwrap(query.subquery_key) \notin DOMAIN db[<<k>>]) =>
    /\ out.status = "ok"
    /\ out.results = <<>>
    /\ out.limit = out.limit_in
    /\ out.offset = out.offset_in

\* ------------------------------ queries of every kind over Tree elements
NextTree ==
  \/ \E k \in BoundKeys : ElementInsert(RootPath, k)
  \/ \E k \in BoundKeys : InsertTree(RootPath, k)
  \/ \E i \in PathItems : SingleInsertItem(i)
  \/ \E e \in PathEnvs : GetQuery(e)
  \/ \E l \in Limits, o \in Offsets, e \in PathEnvs : GetSizedQuery(l, o, e)
  \/ \E l \in Limits, o \in Offsets, e \in PathEnvs : GetPathQuery(l, o, e)

SpecTree == Init /\ [][NextTree]_vars

\* a key the query matches holds a Tree element
MeetsTree ==
  \E k \in QueryKeys(query) \cap DOMAIN db[RootPath] : db[RootPath][k].type = "Tree"

\* C11: a query through get_query, get_sized_query or get_path_query that
\* encounters a Tree element while it has neither subquery nor subquery_key
\* fails with InvalidPath and returns no partial result.  Stated for the
\* left-to-right runs without limit and offset, which visit every match.
C11_TreeNeedsSubquery ==
  (/\ out.op \in {"get_query", "get_sized_query", "get_path_query"}
   /\ out.limit_in = None /\ out.offset_in = None
   /\ query.left_to_right
   /\ query.subquery = None /\ query.subquery_key = None
   /\ MeetsTree) =>
    /\ out.status = "InvalidPath"
    /\ out.results = <<>>

\* ------------------------------------------------------------ Merk proofs
\* a node of a Merk tree; a child is None or Some(node)
TreeNode(key, value, left, right) ==
  [key |-> key, value |-> value, left |-> left, right |-> right]

RECURSIVE height(_)
height(link) ==
  IF link = None THEN 0
  ELSE LET l == height(Unwrap(link).left)
           r == height(Unwrap(link).right)
       IN 1 + (IF l >= r THEN l ELSE r)

\* the value stored under a key of the tree
ProofValue(k) == ValueAt(<<k>>, k)

\* the balanced search trees over exactly the keys S, as links
RECURSIVE TreesOver(_)
TreesOver(S) ==
  IF S = {} THEN {None}
  ELSE UNION {{Some(TreeNode(k, ProofValue(k), p[1], p[2])) :
                 p \in {x \in TreesOver({y \in S : y < k})
                                \X TreesOver({y \in S : y > k}) :
                          height(x[1]) - height(x[2]) \in {-1, 0, 1}}} :
              k \in S}

\* the trees a proof is made of: not empty, at most MaxStored nodes
ProofTrees ==
  UNION {TreesOver(S) : S \in {x \in SUBSET Keys : Cardinality(x) \in 1..MaxStored}}

RECURSIVE Entries(_)
Entries(link) ==
  IF link = None THEN {}
  ELSE LET t == Unwrap(link)
       IN Entries(t.left) \cup {<<t.key, t.value>>} \cup Entries(t.right)

\* hashes: a hash is the tuple of what was hashed, so that equal hashes
\* mean equal inputs
NULL_HASH == <<>>
kv_hash(key, value) == <<key, value>>
node_hash(kv, left, right) == <<kv, left, right>>

RECURSIVE hash(_)
child_hash(link) == IF link = None THEN NULL_HASH ELSE hash(Unwrap(link))
hash(t) == node_hash(kv_hash(t.key, t.value), child_hash(t.left), child_hash(t.right))

\* proof nodes and operators
KV(key, value) == [t |-> "KV", key |-> key, value |-> value, hash |-> NULL_HASH]
KVHash(h) == [t |-> "KVHash", key |-> EmptyKey, value |-> EmptyKey, hash |-> h]
Hash(h) == [t |-> "Hash", key |-> EmptyKey, value |-> EmptyKey, hash |-> h]

Push(node) == [op |-> "Push", node |-> node]
Parent == [op |-> "Parent", node |-> Hash(NULL_HASH)]
Child == [op |-> "Child", node |-> Hash(NULL_HASH)]

to_kv_node(t) == KV(t.key, t.value)
to_kvhash_node(t) == KVHash(kv_hash(t.key, t.value))
to_hash_node(t) == Hash(hash(t))

\* slice::binary_search_by(|key| key.cmp(&node_key)): found with the position
\* of a match, or not found with the position where a match would be put.
\* When several elements match, any of them may be returned: last chooses
binary_search_by(slice, node_key, last) ==
  LET eq == {i \in 1..Len(slice) : cmp(slice[i], node_key) = "Equal"}
      less == {i \in 1..Len(slice) : cmp(slice[i], node_key) = "Less"}
  IN IF eq # {}
     THEN [found |-> TRUE,
           idx |-> IF last THEN CHOOSE i \in eq : \A j \in eq : j <= i
                   ELSE CHOOSE i \in eq : \A j \in eq : i <= j]
     ELSE [found |-> FALSE, idx |-> Cardinality(less) + 1]

RECURSIVE create_proof(_, _, _, _, _)

\* what create_proof returns: ProofOffsetLimit
ProofOffsetLimit(proof, absence, limit, offset) ==
  [proof |-> proof, absence |-> absence, limit |-> limit, offset |-> offset]

\* create_child_proof that reports no edge where the child is missing
create_child_proof_no_edge(t, left, slice, limit, offset, last) ==
  LET link == IF left THEN t.left ELSE t.right
  IN IF Len(slice) > 0
     THEN IF link # None
          THEN create_proof(Unwrap(link), slice, limit, offset, last)
          ELSE ProofOffsetLimit(<<>>, <<FALSE, FALSE>>, None, None)
     ELSE IF link # None
          THEN ProofOffsetLimit(<<Push(to_hash_node(Unwrap(link)))>>,
                                <<FALSE, FALSE>>, None, None)
          ELSE ProofOffsetLimit(<<>>, <<FALSE, FALSE>>, None, None)

create_child_proof(t, left, slice, limit, offset, last) ==
  LET link == IF left THEN t.left ELSE t.right
  IN IF Len(slice) > 0
     THEN IF link # None
          THEN create_proof(Unwrap(link), slice, limit, offset, last)
          ELSE ProofOffsetLimit(<<>>, <<TRUE, TRUE>>, None, None)
     ELSE IF link # None
          THEN ProofOffsetLimit(<<Push(to_hash_node(Unwrap(link)))>>,
                                <<FALSE, FALSE>>, None, None)
          ELSE ProofOffsetLimit(<<>>, <<FALSE, FALSE>>, None, None)

\* the direction, left_to_right, is passed on and not read
create_proof(t, slice, limit, offset, last) ==
  LET search == binary_search_by(slice, QueryItem("Key", t.key, t.key), last)
      index == search.idx
      item == slice[index]
      left_items ==
        IF search.found
        THEN IF lower_bound(item)[1] < t.key
             THEN SubSeq(slice, 1, index)
             ELSE SubSeq(slice, 1, index - 1)
        ELSE SubSeq(slice, 1, index - 1)
      right_items ==
        IF search.found
        THEN IF upper_bound(item)[1] > t.key
             THEN SubSeq(slice, index, Len(slice))
             ELSE SubSeq(slice, index + 1, Len(slice))
        ELSE SubSeq(slice, index, Len(slice))
      right_of(l) ==
        The({ProofOffsetLimit(
               l.proof
               \o <<IF search.found \/ l.absence[2] \/ r.absence[1]
                    THEN Push(to_kv_node(t))
                    ELSE Push(to_kvhash_node(t))>>
               \o (IF Len(l.proof) > 0 THEN <<Parent>> ELSE <<>>)
               \o (IF Len(r.proof) > 0 THEN r.proof \o <<Child>> ELSE <<>>),
               <<l.absence[1], r.absence[2]>>, r.limit, r.offset) :
              r \in {create_child_proof(t, FALSE, right_items, l.limit,
                                        l.offset, last)}})
  IN The({right_of(l) :
            l \in {create_child_proof(t, TRUE, left_items, limit, offset,
                                      last)}})

\* RefWalker::create_full_proof
create_full_proof(t, slice, last) == create_proof(t, slice, None, None, last)

\* the tree a pushed node stands for: the node and the hashes of the
\* children attached to it so far
ProofTree(node) == [node |-> node, left |-> NULL_HASH, right |-> NULL_HASH]

tree_hash(pt) ==
  CASE pt.node.t = "Hash" -> pt.node.hash
    [] pt.node.t = "KVHash" -> node_hash(pt.node.hash, pt.left, pt.right)
    [] pt.node.t = "KV" ->
         node_hash(kv_hash(pt.node.key, pt.node.value), pt.left, pt.right)

\* the state of verify_query's closure
NewVisit ==
  [output |-> <<>>, last_push |-> None, next |-> 1, in_range |-> FALSE,
   status |-> "Ok"]

\* the while-let loop of verify_query's closure on a KV node; next is the
\* position of the item query.peek() returns. A turn that neither advances
\* the query nor breaks leaves everything the next turn reads as it was, so
\* the loop never ends
RECURSIVE visit_kv(_, _, _, _)
visit_kv(vs, items, key, value) ==
  IF vs.next > Len(items) THEN vs
  ELSE
    LET item == items[vs.next]
    IN IF cmp(item, QueryItem("Key", key, key)) = "Greater" THEN vs
       ELSE IF /\ ~vs.in_range
               /\ key # lower_bound(item)[1]
               /\ vs.last_push # None
               /\ Unwrap(vs.last_push).t # "KV"
       THEN [vs EXCEPT !.status = "Cannot verify lower bound of queried range"]
       ELSE The({IF contains(item, key)
                 THEN [vs1 EXCEPT !.output = Append(@, <<key, value>>)]
                 ELSE IF vs1.next = vs.next
                 THEN [vs1 EXCEPT !.status = "verify_query does not return"]
                 ELSE visit_kv(vs1, items, key, value) :
                   vs1 \in {IF key >= upper_bound(item)[1]
                            THEN [vs EXCEPT !.next = @ + 1, !.in_range = FALSE]
                            ELSE [vs EXCEPT !.in_range = TRUE]}})

\* verify_query's closure, called by execute on every pushed node
visit_node(vs, items, node) ==
  The({IF r.status # "Ok" THEN r ELSE [r EXCEPT !.last_push = Some(node)] :
         r \in {IF node.t = "KV" THEN visit_kv(vs, items, node.key, node.value)
                ELSE IF vs.in_range
                THEN [vs EXCEPT !.status = "Proof is missing data for query"]
                ELSE vs}})

Failed(vs, status) == [status |-> status, root |-> NULL_HASH, visit |-> vs]

\* execute: the stack machine over the operators, from operator i on
RECURSIVE execute_loop(_, _, _, _, _)
execute_loop(ops, i, stack, vs, items) ==
  LET n == Len(stack)
  IN IF i > Len(ops)
     THEN IF n # 1
          THEN Failed(vs, "Expected proof to result in exactly one stack item")
          ELSE [status |-> "Ok", root |-> tree_hash(stack[1]), visit |-> vs]
     ELSE
       CASE ops[i].op = "Push" ->
              The({IF v.status # "Ok" THEN Failed(v, v.status)
                   ELSE execute_loop(ops, i + 1,
                                     Append(stack, ProofTree(ops[i].node)), v, items) :
                     v \in {visit_node(vs, items, ops[i].node)}})
         [] ops[i].op = "Parent" ->
              IF n < 2 THEN Failed(vs, "Stack underflow")
              ELSE IF stack[n].left # NULL_HASH
              THEN Failed(vs, "Tried to attach to left child, but it is already Some")
              ELSE The({execute_loop(ops, i + 1, s, vs, items) :
                          s \in {Append(SubSeq(stack, 1, n - 2),
                                        [stack[n] EXCEPT
                                           !.left = tree_hash(stack[n - 1])])}})
         [] ops[i].op = "Child" ->
              IF n < 2 THEN Failed(vs, "Stack underflow")
              ELSE IF stack[n - 1].right # NULL_HASH
              THEN Failed(vs, "Tried to attach to right child, but it is already Some")
              ELSE The({execute_loop(ops, i + 1, s, vs, items) :
                          s \in {Append(SubSeq(stack, 1, n - 2),
                                        [stack[n - 1] EXCEPT
                                           !.right = tree_hash(stack[n])])}})

execute(ops, items) == execute_loop(ops, 1, <<>>, NewVisit, items)

Verified(status, output) == [status |-> status, output |-> output]

verify_query(ops, q, expected_hash) ==
  The({IF r.status # "Ok" THEN Verified(r.status, <<>>)
       ELSE IF /\ r.visit.next <= Len(q.items)
               /\ ~(r.visit.last_push # None /\ Unwrap(r.visit.last_push).t = "KV")
       THEN Verified("Proof is missing data for query", <<>>)
       ELSE IF r.root # expected_hash
       THEN Verified("Proof did not match expected hash", <<>>)
       ELSE Verified("Ok", r.visit.output) :
         r \in {execute(ops, q.items)}})

\* the queries a proof is asked for: one item, or two items of which the
\* first lies wholly before the second, held by a Query as they were inserted
ProofQueries ==
  {insert_item(new_with_direction(TRUE), a) : a \in Items}
  \cup {q \in {insert_item(insert_item(new_with_direction(TRUE), p[1]), p[2]) :
                 p \in {x \in Items \X Items : Before(x[1], x[2])}} :
          Len(q.items) = 2}

\* RefWalker::create_full_proof on the root of tree, for the items of query
CreateProof(last) ==
  /\ tree # None
  /\ proofOut.op # "create_proof"
  /\ \E r \in {create_full_proof(Unwrap(tree), query.items, last)} :
       proofOut' = [NoProof EXCEPT !.op = "create_proof", !.proof = r.proof,
                                   !.absence = r.absence, !.status = "Ok"]
  /\ UNCHANGED <<queryVars, tree, storageVars, chunkVars, encVars,
               elemVars>>

\* verify_query of the proof last made, against the root hash of tree
VerifyQuery ==
  /\ proofOut.op = "create_proof"
  /\ \E r \in {verify_query(proofOut.proof, query, hash(Unwrap(tree)))} :
       proofOut' = [proofOut EXCEPT !.op = "verify_query", !.status = r.status,
                                    !.output = r.output]
  /\ UNCHANGED <<queryVars, tree, storageVars, chunkVars, encVars,
               elemVars>>

InitProof ==
  /\ QueryIdle
  /\ db = (RootPath :> <<>>)
  /\ query \in ProofQueries
  /\ out = NoRun
  /\ tree \in ProofTrees
  /\ proofOut = NoProof
  /\ StorageIdle
  /\ ChunkIdle
  /\ EncIdle
  /\ ElemIdle

NextProof ==
  \/ \E last \in BOOLEAN : CreateProof(last)
  \/ VerifyQuery

SpecProof == InitProof /\ [][NextProof]_vars

\* the pairs of the tree whose key the query contains
Queried == {e \in Entries(tree) : e[1] \in QueryKeys(query)}

\* C12: for any tree and any query of sorted, pairwise disjoint items of any
\* variant, verifying the proof made for the query against the root hash of
\* the tree succeeds and returns exactly the pairs of the tree whose key the
\* query contains
C12_ProofRoundTrip ==
  proofOut.op = "verify_query" =>
    /\ proofOut.status = "Ok"
    /\ {proofOut.output[i] : i \in 1..Len(proofOut.output)} = Queried

\* the query asks for one key, and the tree does not hold it
AbsentKey ==
  /\ Len(query.items) = 1
  /\ query.items[1].t = "Key"
  /\ \A e \in Entries(tree) : e[1] # query.items[1].start

\* C13: for any key the tree does not hold, be it below the leftmost key,
\* above the rightmost key or strictly between two keys, the proof made for
\* that key alone verifies against the root hash and the result is empty
C13_AbsenceProof ==
  (proofOut.op = "verify_query" /\ AbsentKey) =>
    /\ proofOut.status = "Ok"
    /\ proofOut.output = <<>>

\* an absent key strictly between two keys of a tree of three nodes has been
\* proven absent, by a proof that abridges a part of the tree
C13_Witness ==
  /\ proofOut.op = "verify_query"
  /\ AbsentKey
  /\ \E a, b \in Entries(tree) : a[1] < query.items[1].start /\ query.items[1].start < b[1]
  /\ \E i \in 1..Len(proofOut.proof) : proofOut.proof[i].node.t = "Hash" /\ proofOut.proof[i].op = "Push"
  /\ proofOut.status = "Ok"
  /\ proofOut.output = <<>>

\* ------------------------------------------- operations on storage contexts
\* a panic ends the program
Running == storeOut.status # "panicked"

Did(op, prefix, cf, key, transactional) ==
  [NoStoreOut EXCEPT !.op = op, !.prefix = prefix, !.cf = cf, !.key = key,
                     !.transactional = transactional, !.status = "Ok"]

\* PrefixedRocksDbStorageContext::put / put_aux / put_root / put_meta
StoragePut(prefix, cf, key, value) ==
  /\ Running
  /\ nwrites < MaxWrites
  /\ store' = storage_put(store, prefix, cf, key, value)
  /\ tx' = touch(tx, cf, make_prefixed_key(prefix, key))
  /\ storeOut' = [Did("put", prefix, cf, key, FALSE) EXCEPT !.value = Some(value)]
  /\ nwrites' = nwrites + 1
  /\ UNCHANGED <<queryVars, proofVars, batch, chunkVars, encVars,
               elemVars>>

\* PrefixedRocksDbStorageContext::delete / delete_aux / delete_root /
\* delete_meta
StorageDelete(prefix, cf, key) ==
  /\ Running
  /\ nwrites < MaxWrites
  /\ store' = storage_delete(store, prefix, cf, key)
  /\ tx' = touch(tx, cf, make_prefixed_key(prefix, key))
  /\ storeOut' = Did("delete", prefix, cf, key, FALSE)
  /\ nwrites' = nwrites + 1
  /\ UNCHANGED <<queryVars, proofVars, batch, chunkVars, encVars,
               elemVars>>

\* RocksDbStorage::start_transaction
StartTransaction ==
  /\ Running
  /\ tx.state = "none"
  /\ tx' = [NoTx EXCEPT !.state = "open"]
  /\ storeOut' = Did("start_transaction", <<>>, "default", <<>>, TRUE)
  /\ UNCHANGED <<queryVars, proofVars, store, batch, nwrites, chunkVars, encVars,
               elemVars>>

\* put.. through a PrefixedRocksDbTransactionContext
TxPut(prefix, cf, key, value) ==
  /\ Running
  /\ tx.state = "open"
  /\ nwrites < MaxWrites
  /\ tx' = tx_put(tx, prefix, cf, key, value)
  /\ storeOut' = [Did("put", prefix, cf, key, TRUE) EXCEPT !.value = Some(value)]
  /\ nwrites' = nwrites + 1
  /\ UNCHANGED <<queryVars, proofVars, store, batch, chunkVars, encVars,
               elemVars>>

\* delete.. through a PrefixedRocksDbTransactionContext
TxDelete(prefix, cf, key) ==
  /\ Running
  /\ tx.state = "open"
  /\ nwrites < MaxWrites
  /\ tx' = tx_delete(tx, prefix, cf, key)
  /\ storeOut' = Did("delete", prefix, cf, key, TRUE)
  /\ nwrites' = nwrites + 1
  /\ UNCHANGED <<queryVars, proofVars, store, batch, chunkVars, encVars,
               elemVars>>

\* RocksDbStorage::commit_transaction; the handle is consumed. The commit
\* of a transaction whose write set went stale fails and writes nothing
CommitTransaction ==
  /\ Running
  /\ tx.state = "open"
  /\ ~(batch.state = "open" /\ batch.transactional)
  /\ store' = IF tx.stale THEN store ELSE commit(store, tx)
  /\ tx' = NoTx
  /\ storeOut' = [Did("commit_transaction", <<>>, "default", <<>>, TRUE) EXCEPT
                    !.status = IF tx.stale THEN "Busy" ELSE "Ok",
                    !.applied = IF tx.stale THEN 0 ELSE Cardinality(Written(tx))]
  /\ UNCHANGED <<queryVars, proofVars, batch, nwrites, chunkVars, encVars,
               elemVars>>

\* RocksDbStorage::rollback_transaction; the handle is borrowed and lives on
RollbackTransaction ==
  /\ Running
  /\ tx.state = "open"
  /\ tx' = rollback(tx)
  /\ storeOut' = [Did("rollback_transaction", <<>>, "default", <<>>, TRUE) EXCEPT
                    !.applied = Cardinality(Written(tx))]
  /\ UNCHANGED <<queryVars, proofVars, store, batch, nwrites, chunkVars, encVars,
               elemVars>>

\* StorageContext::new_batch, of a context with or without a transaction
NewBatch(prefix, transactional) ==
  /\ Running
  /\ batch.state = "none"
  /\ transactional => tx.state = "open"
  /\ batch' = [NoBatch EXCEPT !.state = "open", !.prefix = prefix,
                              !.transactional = transactional]
  /\ storeOut' = Did("new_batch", prefix, "default", <<>>, transactional)
  /\ UNCHANGED <<queryVars, proofVars, store, tx, nwrites, chunkVars, encVars,
               elemVars>>

\* Batch::put / put_aux / put_root
BatchPut(cf, key, value) ==
  /\ Running
  /\ batch.state = "open"
  /\ nwrites < MaxWrites
  /\ batch' = batch_put(batch, cf, key, value)
  /\ storeOut' = [Did("batch_put", batch.prefix, cf, key, batch.transactional) EXCEPT
                    !.value = Some(value)]
  /\ nwrites' = nwrites + 1
  /\ UNCHANGED <<queryVars, proofVars, store, tx, chunkVars, encVars,
               elemVars>>

\* Batch::delete / delete_aux / delete_root
BatchDelete(cf, key) ==
  /\ Running
  /\ batch.state = "open"
  /\ nwrites < MaxWrites
  /\ batch' = batch_delete(batch, cf, key)
  /\ storeOut' = Did("batch_delete", batch.prefix, cf, key, batch.transactional)
  /\ nwrites' = nwrites + 1
  /\ UNCHANGED <<queryVars, proofVars, store, tx, chunkVars, encVars,
               elemVars>>

\* StorageContext::commit_batch: storage.write(batch.batch) outside a
\* transaction, the operations done on the transaction inside one
CommitBatch ==
  /\ Running
  /\ batch.state = "open"
  /\ store' = IF batch.transactional THEN store ELSE write(store, batch.ops)
  /\ tx' = IF batch.transactional THEN tx_write(tx, batch.ops)
           ELSE touch_all(tx, batch.ops)
  /\ batch' = NoBatch
  /\ storeOut' = [Did("commit_batch", batch.prefix, "default", <<>>,
                      batch.transactional) EXCEPT !.applied = Len(batch.ops)]
  /\ UNCHANGED <<queryVars, proofVars, nwrites, chunkVars, encVars,
               elemVars>>

\* PrefixedRocksDbStorageContext::raw_iter: todo!()
RawIter(prefix) ==
  /\ Running
  /\ storeOut' = [Did("raw_iter", prefix, "default", <<>>, FALSE) EXCEPT
                    !.status = "panicked"]
  /\ UNCHANGED <<queryVars, proofVars, store, tx, batch, nwrites, chunkVars, encVars,
               elemVars>>

InitStorage ==
  /\ QueryIdle
  /\ db = (RootPath :> <<>>)
  /\ query = new_with_direction(TRUE)
  /\ out = NoRun
  /\ ProofIdle
  /\ StorageIdle
  /\ ChunkIdle
  /\ EncIdle
  /\ ElemIdle

NextStorage ==
  \/ \E p \in Prefixes, cf \in CFs, k \in StorageKeys, v \in Values :
       StoragePut(p, cf, k, v)
  \/ \E p \in Prefixes, cf \in CFs, k \in StorageKeys : StorageDelete(p, cf, k)
  \/ \E p \in Prefixes : RawIter(p)

SpecStorage == InitStorage /\ [][NextStorage]_vars

\* ------------------------------------------------------------ transactions
\* the column families the runs with a transaction write to
TxCFs == {"default", "aux"}

NextTx ==
  \/ StartTransaction
  \/ \E p \in Prefixes, cf \in TxCFs, k \in StorageKeys, v \in Values :
       TxPut(p, cf, k, v)
  \/ \E p \in Prefixes, cf \in TxCFs, k \in StorageKeys : TxDelete(p, cf, k)
  \/ CommitTransaction
  \/ RollbackTransaction
  \/ \E p \in Prefixes, cf \in TxCFs, k \in StorageKeys, v \in Values :
       StoragePut(p, cf, k, v)
  \/ \E p \in Prefixes, cf \in TxCFs, k \in StorageKeys : StorageDelete(p, cf, k)

SpecTx == InitStorage /\ [][NextTx]_vars

\* ----------------------------------------------------------------- batches
\* the prefixes of the contexts that make batches: one prefix and a prefix
\* it starts
BatchPrefixes == {p \in Prefixes : p[1] = 1}

NextBatch ==
  \/ \E p \in BatchPrefixes, t \in BOOLEAN : NewBatch(p, t)
  \/ \E cf \in BatchCFs, k \in StorageKeys, v \in Values : BatchPut(cf, k, v)
  \/ \E cf \in BatchCFs, k \in StorageKeys : BatchDelete(cf, k)
  \/ CommitBatch
  \/ StartTransaction

SpecBatch == InitStorage /\ [][NextBatch]_vars

\* what every context without a transaction reads, but for those of prefix
ReadsBut(s, prefix) ==
  [c \in (Prefixes \ {prefix}) \X CFs \X StorageKeys |->
     storage_get(s, c[1], c[2], c[3])]

\* C14: for two storage contexts with distinct prefixes, in every column
\* family (default, aux, roots, meta), a put or a delete through one context
\* never changes what a get through the other context returns
C14_PrefixIsolation ==
  [][(storeOut'.op \in {"put", "delete"} /\ ~storeOut'.transactional) =>
       ReadsBut(store', storeOut'.prefix) = ReadsBut(store, storeOut'.prefix)]_vars

\* what the contexts without a transaction read, and what the contexts of
\* the transaction read
Reads(s) ==
  [c \in Prefixes \X CFs \X StorageKeys |-> storage_get(s, c[1], c[2], c[3])]
TxReads(s, t) ==
  [c \in Prefixes \X CFs \X StorageKeys |-> tx_get(s, t, c[1], c[2], c[3])]

\* C15: a write through a transactional context is observed by the reads of
\* the same transaction and changes nothing that a context without a
\* transaction reads; once commit_transaction has succeeded, every context
\* reads what the transaction read
C15_TransactionIsolation ==
  [][/\ (storeOut'.transactional /\ storeOut'.op \in {"put", "delete"}) =>
          /\ tx_get(store', tx', storeOut'.prefix, storeOut'.cf, storeOut'.key)
               = storeOut'.value
          /\ Reads(store') = Reads(store)
     /\ (storeOut'.op = "commit_transaction" /\ storeOut'.status = "Ok") =>
          Reads(store') = TxReads(store, tx)]_vars

\* a transaction that wrote has been committed, and a context without a
\* transaction reads a value
C15_Witness ==
  /\ storeOut.op = "commit_transaction"
  /\ storeOut.status = "Ok"
  /\ storeOut.applied > 0
  /\ \E c \in Prefixes \X CFs \X StorageKeys : Reads(store)[c] # None

RECURSIVE AfterBatch(_, _, _, _)
AfterBatch(ops, cf, k, before) ==
  IF Len(ops) = 0 THEN before
  ELSE LET o == ops[Len(ops)]
       IN IF o.cf = cf /\ o.key = k THEN o.value
          ELSE AfterBatch(SubSeq(ops, 1, Len(ops) - 1), cf, k, before)

\* C17: the puts and deletes gathered in a batch change nothing that any get
\* returns until commit_batch is called; commit_batch makes all of them
\* take effect together
C17_BatchAtomic ==
  [][/\ storeOut'.op \in {"batch_put", "batch_delete"} =>
          /\ Reads(store') = Reads(store)
          /\ TxReads(store', tx') = TxReads(store, tx)
     /\ (storeOut'.op = "commit_batch" /\ ~storeOut'.transactional) =>
          \A cf \in CFs, k \in PrefixedKeys :
            store'[cf][k] = AfterBatch(batch.ops, cf, k, store[cf][k])
     /\ (storeOut'.op = "commit_batch" /\ storeOut'.transactional) =>
          /\ Reads(store') = Reads(store)
          /\ \A c \in Prefixes \X CFs \X StorageKeys :
               TxReads(store', tx')[c] =
                 AfterBatch(batch.ops, c[2], make_prefixed_key(c[1], c[3]),
                            TxReads(store, tx)[c])]_vars

\* a batch of two operations has been committed outside a transaction, and
\* a get returns a value it put
C17_Witness ==
  /\ storeOut.op = "commit_batch"
  /\ ~storeOut.transactional
  /\ storeOut.applied = 2
  /\ \E c \in Prefixes \X CFs \X StorageKeys : Reads(store)[c] # None

\* the pairs of the default column family under a prefix, as key and value
UnderPrefix(s, prefix) ==
  {<<k, Unwrap(storage_get(s, prefix, "default", k))>> :
     k \in {x \in StorageKeys : storage_get(s, prefix, "default", x) # None}}

\* C18: the raw iterator of a context without a transaction yields, after
\* seek_to_first and repeated next, exactly the pairs stored under the
\* prefix and none of another prefix; raw_iter hands out such an iterator
C18_RawIterWalk ==
  storeOut.op = "raw_iter" =>
    /\ storeOut.status = "Ok"
    /\ {storeOut.walk[i] : i \in 1..Len(storeOut.walk)}
         = UnderPrefix(store, storeOut.prefix)

\* ---------------------------------------------------------- ChunkProducer
\* the keys of the KV nodes pushed by a sequence of operators
RECURSIVE kv_keys(_)
kv_keys(ops) ==
  IF Len(ops) = 0 THEN <<>>
  ELSE (IF Head(ops).op = "Push" /\ Head(ops).node.t = "KV"
        THEN <<Head(ops).node.key>> ELSE <<>>) \o kv_keys(Tail(ops))

\* create_trunk_proof: the KV nodes of the top of the tree, here those of
\* the keys top in ascending order, and, when the tree goes on below them
\* (has_more), the rest abridged
create_trunk_proof(top, has_more) ==
  [i \in 1..Len(top) |-> Push(KV(top[i], ProofValue(top[i])))]
  \o (IF has_more THEN <<Push(Hash(NULL_HASH))>> ELSE <<>>)

\* ChunkProducer::new over a Merk holding keys, whose trunk holds top
new(keys, top, has_more) ==
  LET trunk == create_trunk_proof(SortedSeq(top), has_more)
  IN [trunk |-> trunk,
      chunk_boundaries |-> IF has_more THEN kv_keys(trunk) ELSE <<>>,
      raw_iter |-> iter_seek_to_first([keys |-> SortedSeq(keys), pos |-> 0,
                                       after |-> FALSE]),
      index |-> 0]

\* ChunkProducer::len
len(p) ==
  LET boundaries_len == Len(p.chunk_boundaries)
  IN IF boundaries_len = 0 THEN 1 ELSE boundaries_len + 2

\* get_next_chunk: the entries from the iterator on, up to end_key or to
\* the end; the entry of end_key is stepped over
RECURSIVE get_next_chunk(_, _, _)
get_next_chunk(it, end_key, chunk) ==
  IF ~iter_valid(it) THEN [raw_iter |-> it, chunk |-> chunk]
  ELSE IF iter_key(it) = end_key THEN [raw_iter |-> iter_next(it), chunk |-> chunk]
  ELSE get_next_chunk(iter_next(it), end_key, Append(chunk, Unwrap(iter_key(it))))

Chunked(p, status, chunk) == [producer |-> p, status |-> status, chunk |-> chunk]

\* ChunkProducer::next_chunk
next_chunk(p) ==
  IF p.index = 0
  THEN IF Len(p.trunk) = 0
       THEN Chunked(p, "Attempted to fetch chunk on empty tree", <<>>)
       ELSE Chunked([p EXCEPT !.index = @ + 1], "Ok", kv_keys(p.trunk))
  ELSE IF p.index >= len(p)
  THEN Chunked(p, "panicked", <<>>)
  ELSE LET end_key == IF p.index - 1 < Len(p.chunk_boundaries)
                      THEN Some(p.chunk_boundaries[p.index]) ELSE None
       IN The({Chunked([p EXCEPT !.index = @ + 1, !.raw_iter = r.raw_iter],
                       "Ok", r.chunk) :
                 r \in {get_next_chunk(p.raw_iter, end_key, <<>>)}})

\* a chunk that gives the iterator no new place before it reads on
chunk_no_seek(p, index) ==
  IF index >= len(p)
  THEN Chunked(p, "Chunk index out-of-bounds", <<>>)
  ELSE next_chunk([p EXCEPT !.index = index])

\* a chunk that moves the index before it looks at the bounds
chunk_index_first(p, index) ==
  IF index >= len(p)
  THEN Chunked([p EXCEPT !.index = index], "Chunk index out-of-bounds", <<>>)
  ELSE next_chunk(
         [p EXCEPT !.index = index,
                   !.raw_iter =
                     IF index = 0 \/ index = 1 THEN iter_seek_to_first(@)
                     ELSE iter_next(iter_seek(@, p.chunk_boundaries[index - 1]))])

\* ChunkProducer::chunk
chunk(p, index) ==
  IF index >= len(p)
  THEN Chunked(p, "Chunk index out-of-bounds", <<>>)
  ELSE next_chunk(
         [p EXCEPT !.index = index,
                   !.raw_iter =
                     IF index = 0 \/ index = 1 THEN iter_seek_to_first(@)
                     ELSE iter_next(iter_seek(@, p.chunk_boundaries[index - 1]))])

\* the chunk indexes asked for: those of the largest producer and one, two
\* past them
ChunkIndexes == 0..(MaxStored + 2)

\* producer.chunk(index), on a producer that has not been turned into an
\* iterator
Chunk(index) ==
  /\ chunkOut.yielded = 0
  /\ chunkOut.status # "panicked"
  /\ \E r \in {chunk(producer, index)} :
       /\ producer' = r.producer
       /\ chunkOut' = [NoChunkOut EXCEPT !.op = "chunk", !.index_in = index,
                                         !.status = r.status, !.chunk = r.chunk,
                                         !.random = TRUE,
                                         !.index_was = producer.index]
  /\ UNCHANGED <<queryVars, proofVars, storageVars, encVars,
               elemVars>>

\* ChunkIter::next; an iterator that has returned None is not asked again,
\* and the count of the items yielded stops one past len()
ChunkIterNext ==
  /\ chunkOut.status \notin {"None", "panicked"}
  /\ chunkOut.yielded <= len(producer)
  /\ IF producer.index >= len(producer)
     THEN /\ chunkOut' = [chunkOut EXCEPT !.op = "next", !.index_in = 0,
                                          !.status = "None", !.chunk = <<>>]
          /\ UNCHANGED producer
     ELSE \E r \in {next_chunk(producer)} :
            /\ producer' = r.producer
            /\ chunkOut' = [chunkOut EXCEPT !.op = "next", !.index_in = 0,
                                            !.status = r.status, !.chunk = r.chunk,
                                            !.yielded = @ + 1]
  /\ UNCHANGED <<queryVars, proofVars, storageVars, encVars,
               elemVars>>

\* the Merks a producer is made for: up to MaxStored keys, the trunk holding
\* all of them, or some of them with more of the tree below
InitChunks ==
  /\ QueryIdle
  /\ db = (RootPath :> <<>>)
  /\ query = new_with_direction(TRUE)
  /\ out = NoRun
  /\ ProofIdle
  /\ StorageIdle
  /\ EncIdle
  /\ ElemIdle
  /\ \E keys \in {x \in SUBSET Keys : Cardinality(x) <= MaxStored} :
       \E top \in SUBSET keys :
         /\ top = {} => keys = {}
         /\ producer = new(keys, top, top # keys)
  /\ chunkOut = NoChunkOut

NextChunks ==
  \/ \E i \in ChunkIndexes : Chunk(i)
  \/ ChunkIterNext

SpecChunks == InitChunks /\ [][NextChunks]_vars

\* C19: the iteration of a ChunkProducer through its iterator comes to an
\* end: it yields len() items, the first of them the trunk chunk, and then
\* None
C19_IterationEnds ==
  (chunkOut.op = "next" /\ ~chunkOut.random) =>
    /\ chunkOut.yielded <= len(producer)
    /\ chunkOut.status = "None" => chunkOut.yielded = len(producer)
    /\ (chunkOut.yielded = 1 /\ chunkOut.status # "None") =>
         /\ chunkOut.status = "Ok"
         /\ chunkOut.chunk = kv_keys(producer.trunk)

\* C20: chunk(i) with i >= len() fails with the error "Chunk index
\* out-of-bounds", without a panic, and leaves the index and the position of
\* the iterator as they were
C20_ChunkOutOfBounds ==
  [][(chunkOut'.op = "chunk" /\ chunkOut'.index_in >= len(producer)) =>
       /\ chunkOut'.status = "Chunk index out-of-bounds"
       /\ producer' = producer]_vars

\* an index past the end has been refused on a producer whose index and
\* iterator had moved
C20_Witness ==
  /\ chunkOut.op = "chunk"
  /\ chunkOut.index_in >= len(producer)
  /\ chunkOut.status = "Chunk index out-of-bounds"
  /\ producer.index > 1
  /\ producer.raw_iter.pos > 1

\* ------------------------------------------------ random access to chunks
\* merk.chunks() once more: a producer over the same Merk as p, as new
\* makes it
chunks(p) == [p EXCEPT !.index = 0, !.raw_iter = iter_seek_to_first(@)]

\* chunks().into_iter().map(Result::unwrap).collect(): the chunks of the
\* iteration in order, up to None or to the first item that is not Ok
RECURSIVE collect(_, _)
collect(p, acc) ==
  IF p.index >= len(p) THEN acc
  ELSE The({IF r.status = "Ok" THEN collect(r.producer, Append(acc, r.chunk))
            ELSE acc : r \in {next_chunk(p)}})

\* C21: on a Merk that is not empty, chunk(i) with i < len() returns the
\* i-th chunk of the iteration in order, whatever chunks were fetched before
C21_RandomAccess ==
  (chunkOut.op = "chunk" /\ chunkOut.index_in < len(producer)
     /\ Len(producer.trunk) > 0) =>
    /\ chunkOut.status = "Ok"
    /\ \E all \in {collect(chunks(producer), <<>>)} :
         /\ Len(all) = len(producer)
         /\ chunkOut.chunk = all[chunkOut.index_in + 1]

\* a leaf chunk that is not empty has been fetched again after a later one:
\* the iterator went back to the boundary before it
C21_Witness ==
  /\ chunkOut.op = "chunk"
  /\ chunkOut.status = "Ok"
  /\ chunkOut.index_in >= 2
  /\ chunkOut.index_in < len(producer)
  /\ chunkOut.index_was > chunkOut.index_in + 1
  /\ Len(chunkOut.chunk) > 0

\* ------------------------------------------------------ Tree encode / decode
\* Link::Reference, Modified, Uncommitted and Loaded; a link that holds its
\* child in memory has the child's key in tree, a Modified link has no hash
Reference(h, child_heights, key) ==
  [t |-> "Reference", hash |-> h, child_heights |-> child_heights,
   key |-> key, tree |-> None, pending_writes |-> 0]
Modified(pending_writes, child_heights, child) ==
  [t |-> "Modified", hash |-> <<>>, child_heights |-> child_heights,
   key |-> <<>>, tree |-> Some(child), pending_writes |-> pending_writes]
Uncommitted(h, child_heights, child) ==
  [t |-> "Uncommitted", hash |-> h, child_heights |-> child_heights,
   key |-> <<>>, tree |-> Some(child), pending_writes |-> 0]
Loaded(h, child_heights, child) ==
  [t |-> "Loaded", hash |-> h, child_heights |-> child_heights,
   key |-> <<>>, tree |-> Some(child), pending_writes |-> 0]

\* Tree::from_fields
from_fields(key, value, kvh, left, right) ==
  [key |-> key, value |-> value, kv_hash |-> kvh, left |-> left,
   right |-> right]

\* a hash of HASH_LENGTH bytes b
HashOf(b) == [i \in 1..HASH_LENGTH |-> b]

\* Tree::new: a node without children
tree_new(key, value) == from_fields(key, value, HashOf(0), None, None)

\* Link::key
link_key(link) ==
  IF link.t = "Reference" THEN link.key ELSE Unwrap(link.tree).key

Encoded(status, bytes) == [status |-> status, bytes |-> bytes]

\* the encoding of a Link: the length of the key, the key, the hash and the
\* two child heights; there is none for Link::Modified
encode_link(link) ==
  IF link.t = "Modified" THEN Encoded("panicked", <<>>)
  ELSE Encoded("Ok", <<Len(link_key(link))>> \o link_key(link) \o link.hash
                       \o link.child_heights)

\* the encoding of an Option<Link>: 0, or 1 and the link
encode_option(o) ==
  IF o = None THEN Encoded("Ok", <<0>>)
  ELSE The({IF r.status = "Ok" THEN Encoded("Ok", <<1>> \o r.bytes) ELSE r :
              r \in {encode_link(Unwrap(o))}})

\* an encoding of a Link that writes a Modified link as a Reference to its
\* child with a hash of zeros
encode_link_any(link) ==
  Encoded("Ok", <<Len(link_key(link))>> \o link_key(link)
                \o (IF link.t = "Modified" THEN HashOf(0) ELSE link.hash)
                \o link.child_heights)

\* an encode that has an encoding for every link
encode_any(t) ==
  LET opt(o) == IF o = None THEN <<0>>
                ELSE <<1>> \o encode_link_any(Unwrap(o)).bytes
  IN Encoded("Ok", opt(t.left) \o opt(t.right) \o t.kv_hash \o t.value)

\* Tree::encode: the left link, the right link, the kv hash and the value;
\* the key is not part of the encoding
encode(t) ==
  LET l == encode_option(t.left)
      r == encode_option(t.right)
  IN IF l.status # "Ok" THEN l
     ELSE IF r.status # "Ok" THEN r
     ELSE Encoded("Ok", l.bytes \o r.bytes \o t.kv_hash \o t.value)

Decoded(status, value, rest) ==
  [status |-> status, value |-> value, rest |-> rest]

\* the decoding of a Link, always a Link::Reference
decode_link(input) ==
  IF Len(input) < 1 \/ Len(input) < 1 + input[1] + HASH_LENGTH + 2
  THEN Decoded("Err", None, <<>>)
  ELSE LET n == input[1]
       IN Decoded("Ok",
                  Some(Reference(SubSeq(input, n + 2, n + 1 + HASH_LENGTH),
                                 SubSeq(input, n + HASH_LENGTH + 2,
                                        n + HASH_LENGTH + 3),
                                 SubSeq(input, 2, n + 1))),
                  SubSeq(input, n + HASH_LENGTH + 4, Len(input)))

\* the decoding of an Option<Link>
decode_option(input) ==
  IF Len(input) < 1 THEN Decoded("Err", None, <<>>)
  ELSE IF input[1] = 0 THEN Decoded("Ok", None, Tail(input))
  ELSE IF input[1] = 1 THEN decode_link(Tail(input))
  ELSE Decoded("Err", None, <<>>)

\* a decode that leaves the key as the decoding made it, empty
decode_no_key(key, input) ==
  LET l == decode_option(input)
      r == decode_option(l.rest)
  IN IF l.status # "Ok" \/ r.status # "Ok" \/ Len(r.rest) < HASH_LENGTH
     THEN [status |-> "panicked", tree |-> None]
     ELSE [status |-> "Ok",
           tree |-> Some(from_fields(<<>>,
                                     SubSeq(r.rest, HASH_LENGTH + 1, Len(r.rest)),
                                     SubSeq(r.rest, 1, HASH_LENGTH),
                                     l.value, r.value))]

\* Tree::decode: the decoding of the input, unwrapped, with the key set to
\* the key passed
decode(key, input) ==
  LET l == decode_option(input)
      r == decode_option(l.rest)
  IN IF l.status # "Ok" \/ r.status # "Ok" \/ Len(r.rest) < HASH_LENGTH
     THEN [status |-> "panicked", tree |-> None]
     ELSE [status |-> "Ok",
           tree |-> Some(from_fields(key,
                                     SubSeq(r.rest, HASH_LENGTH + 1, Len(r.rest)),
                                     SubSeq(r.rest, 1, HASH_LENGTH),
                                     l.value, r.value))]

\* the Tree nodes encoded: keys, values and hashes whose bytes look like the
\* tags and lengths of the encoding, and every kind of link on both sides
TreeKeys == {<<0>>, <<3, 1>>}
TreeValues == {<<>>, <<1>>, <<0, 1>>}
Hashes == {HashOf(66), HashOf(1)}
ChildHeights == {<<123, 124>>, <<0, 1>>}
LinkKeys == {<<2>>, <<1, 1>>}
Links ==
  {Reference(h, c, k) : h \in Hashes, c \in ChildHeights, k \in LinkKeys}
  \cup {Modified(1, c, tree_new(k, <<3>>)) : c \in ChildHeights, k \in LinkKeys}
  \cup {Uncommitted(h, c, tree_new(k, <<3>>)) :
          h \in Hashes, c \in ChildHeights, k \in LinkKeys}
  \cup {Loaded(h, c, tree_new(k, <<3>>)) :
          h \in Hashes, c \in ChildHeights, k \in LinkKeys}
OptionLinks == {None} \cup {Some(l) : l \in Links}
Trees ==
  {from_fields(k, v, h, l, r) :
     k \in TreeKeys, v \in TreeValues, h \in Hashes,
     l \in OptionLinks, r \in OptionLinks}

\* tree.encode()
Encode ==
  /\ encOut.op = "none"
  /\ \E r \in {encode(Unwrap(encIn))} :
       encOut' = [NoEncOut EXCEPT !.op = "encode", !.status = r.status,
                                  !.bytes = r.bytes]
  /\ UNCHANGED <<queryVars, proofVars, storageVars, chunkVars, encIn, elemVars>>

\* Tree::decode(key, bytes) of the bytes encoded
Decode(key) ==
  /\ encOut.op = "encode"
  /\ encOut.status = "Ok"
  /\ \E r \in {decode(key, encOut.bytes)} :
       encOut' = [encOut EXCEPT !.op = "decode", !.status = r.status,
                                !.key_in = key, !.tree = r.tree]
  /\ UNCHANGED <<queryVars, proofVars, storageVars, chunkVars, encIn, elemVars>>

InitEncoding ==
  /\ QueryIdle
  /\ db = (RootPath :> <<>>)
  /\ query = new_with_direction(TRUE)
  /\ out = NoRun
  /\ ProofIdle
  /\ StorageIdle
  /\ ChunkIdle
  /\ encIn \in {Some(t) : t \in Trees}
  /\ encOut = NoEncOut
  /\ ElemIdle

NextEncoding ==
  \/ Encode
  \/ \E key \in TreeKeys : Decode(key)

SpecEncoding == InitEncoding /\ [][NextEncoding]_vars

\* the optional link is a Link::Modified
IsModified(o) == o # None /\ Unwrap(o).t = "Modified"

\* the Reference form of an optional link: its presence, and the child's
\* key with its length, the hash and the child heights
ReferenceForm(o) ==
  IF o = None THEN <<0>>
  ELSE <<1, Len(link_key(Unwrap(o)))>> \o link_key(Unwrap(o))
       \o Unwrap(o).hash \o Unwrap(o).child_heights

\* C22: encode of a node with a Modified link on either side panics and
\* produces no bytes; a node whose links are Reference, Loaded or
\* Uncommitted is encoded, each link in Reference form
C22_EncodeModified ==
  encOut.op = "encode" =>
    \E t \in {Unwrap(encIn)} :
      IF IsModified(t.left) \/ IsModified(t.right)
      THEN encOut.status = "panicked" /\ encOut.bytes = <<>>
      ELSE /\ encOut.status = "Ok"
           /\ encOut.bytes = ReferenceForm(t.left) \o ReferenceForm(t.right)
                               \o t.kv_hash \o t.value

\* a node whose left link is Loaded and whose right link is Modified has
\* been refused
C22_Witness ==
  /\ encOut.op = "encode"
  /\ encOut.status = "panicked"
  /\ Unwrap(encIn).left # None
  /\ Unwrap(Unwrap(encIn).left).t = "Loaded"
  /\ IsModified(Unwrap(encIn).right)

\* the two optional links are both absent, or both present with the same
\* child key, hash and child heights
SameLink(a, b) ==
  /\ a = None <=> b = None
  /\ a # None =>
       /\ link_key(Unwrap(a)) = link_key(Unwrap(b))
       /\ Unwrap(a).hash = Unwrap(b).hash
       /\ Unwrap(a).child_heights = Unwrap(b).child_heights

\* C23: decoding the encoding of a node without Modified links under the
\* node's key gives the node back: key, value, kv hash, and on each side a
\* link when there was one, with the same child key, hash and child heights
C23_EncodeDecode ==
  (encOut.op = "decode" /\ encOut.key_in = Unwrap(encIn).key) =>
    /\ encOut.status = "Ok"
    /\ \E t \in {Unwrap(encIn)}, d \in {Unwrap(encOut.tree)} :
         /\ d.key = t.key
         /\ d.value = t.value
         /\ d.kv_hash = t.kv_hash
         /\ SameLink(t.left, d.left)
         /\ SameLink(t.right, d.right)

\* a node with a Loaded link on the left, a Reference on the right and a
\* value of two bytes has been encoded and decoded under its key
C23_Witness ==
  /\ encOut.op = "decode"
  /\ encOut.status = "Ok"
  /\ encOut.key_in = Unwrap(encIn).key
  /\ Len(encOut.key_in) = 2
  /\ Unwrap(encIn).left # None
  /\ Unwrap(Unwrap(encIn).left).t = "Loaded"
  /\ Unwrap(encIn).right # None
  /\ Unwrap(Unwrap(encIn).right).t = "Reference"
  /\ Len(Unwrap(encIn).value) = 2

\* ------------------------------------------- Element insert / get / delete
\* a number in w bytes, the lowest first, and back
RECURSIVE le_bytes(_, _)
le_bytes(n, w) ==
  IF w = 0 THEN <<>> ELSE <<n % 256>> \o le_bytes(n \div 256, w - 1)
RECURSIVE from_le_bytes(_)
from_le_bytes(bytes) ==
  IF Len(bytes) = 0 THEN 0 ELSE Head(bytes) + 256 * from_le_bytes(Tail(bytes))

\* bincode::serialize of an Element: the index of the variant in four
\* bytes, then for Item the length of the value in eight bytes and the
\* value, for Tree the bytes of the hash
serialize(element) ==
  IF element.type = "Item"
  THEN le_bytes(0, 4) \o le_bytes(Len(element.value), 8) \o element.value
  ELSE le_bytes(2, 4) \o HashOf(0)

\* bincode::deserialize to an Element
deserialize(bytes) ==
  IF Len(bytes) < 4 THEN None
  ELSE LET variant == from_le_bytes(SubSeq(bytes, 1, 4))
       IN IF variant = 0
          THEN IF Len(bytes) < 12
                  \/ Len(bytes) < 12 + from_le_bytes(SubSeq(bytes, 5, 12))
               THEN None
               ELSE Some(Item(SubSeq(bytes, 13,
                                     12 + from_le_bytes(SubSeq(bytes, 5, 12)))))
          ELSE IF variant = 2
          THEN IF Len(bytes) < 4 + HASH_LENGTH THEN None ELSE Some(Tree)
          ELSE None

\* Merk::apply of a Delete: the entry under key is gone
merk_delete(merk, key) == [x \in DOMAIN merk \ {key} |-> merk[x]]

\* an insert that leaves the entry of a key that has one as it is
insert_if_absent(element, merk, key) ==
  IF key \in DOMAIN merk THEN merk ELSE Put(merk, key, serialize(element))

\* Element::insert
insert(element, merk, key) == Put(merk, key, serialize(element))

\* Element::delete
delete(merk, key) == merk_delete(merk, key)

\* Element::get, with the deserialization of the value the Merk holds
element_get(merk, key) ==
  IF key \notin DOMAIN merk
  THEN [status |-> "PathKeyNotFound", element |-> None]
  ELSE The({IF e = None THEN [status |-> "CorruptedData", element |-> None]
            ELSE [status |-> "Ok", element |-> e] :
              e \in {deserialize(merk[key])}})

ElemKeys == {<<1>>, <<2>>, <<1, 2>>}
Elements == {Item(<<>>), Item(<<1>>), Item(<<0, 1>>), Tree}

\* element.insert(&mut merk, key, None)
Insert(element, key) ==
  /\ elemMerk' = insert(element, elemMerk, key)
  /\ elemLast' = Put(elemLast, key, element)
  /\ elemOut' = [NoElemOut EXCEPT !.op = "insert", !.key = key,
                                  !.status = "Ok"]
  /\ UNCHANGED <<queryVars, proofVars, storageVars, chunkVars, encVars>>

\* Element::delete(&mut merk, key, None)
Delete(key) ==
  /\ elemMerk' = delete(elemMerk, key)
  /\ elemLast' = [x \in DOMAIN elemLast \ {key} |-> elemLast[x]]
  /\ elemOut' = [NoElemOut EXCEPT !.op = "delete", !.key = key,
                                  !.status = "Ok"]
  /\ UNCHANGED <<queryVars, proofVars, storageVars, chunkVars, encVars>>

\* Element::get(&merk, key)
Get(key) ==
  /\ \E r \in {element_get(elemMerk, key)} :
       elemOut' = [NoElemOut EXCEPT !.op = "get", !.key = key,
                                    !.status = r.status, !.element = r.element]
  /\ UNCHANGED <<queryVars, proofVars, storageVars, chunkVars, encVars,
                 elemMerk, elemLast>>

InitElement ==
  /\ QueryIdle
  /\ db = (RootPath :> <<>>)
  /\ query = new_with_direction(TRUE)
  /\ out = NoRun
  /\ ProofIdle
  /\ StorageIdle
  /\ ChunkIdle
  /\ EncIdle
  /\ ElemIdle

NextElement ==
  \/ \E e \in Elements, k \in ElemKeys : Insert(e, k)
  \/ \E k \in ElemKeys : Delete(k)
  \/ \E k \in ElemKeys : Get(k)

SpecElement == InitElement /\ [][NextElement]_vars

\* C24: get of a key returns the Element last inserted under it, whatever
\* was inserted or deleted under other keys; after a delete of the key, and
\* before any insert of it, get fails with PathKeyNotFound
C24_InsertGet ==
  elemOut.op = "get" =>
    IF elemOut.key \in DOMAIN elemLast
    THEN /\ elemOut.status = "Ok"
         /\ elemOut.element = Some(elemLast[elemOut.key])
    ELSE /\ elemOut.status = "PathKeyNotFound"
         /\ elemOut.element = None

\* an Item of two bytes has been read back from a Merk that holds two other
\* keys
C24_Witness ==
  /\ elemOut.op = "get"
  /\ elemOut.status = "Ok"
  /\ elemOut.element = Some(Item(<<0, 1>>))
  /\ Cardinality(DOMAIN elemMerk) = 3

\* ------------------------------------------- proofs with limit and offset
\* RefWalker::create_proof on the root of tree, for the items of query, with
\* a limit and an offset
CreateSizedProof(limit, offset, last) ==
  /\ tree # None
  /\ proofOut.op = "none"
  /\ \E r \in {create_proof(Unwrap(tree), query.items, limit, offset, last)} :
       proofOut' = [NoProof EXCEPT !.op = "create_proof", !.proof = r.proof,
                                   !.absence = r.absence, !.status = "Ok",
                                   !.limit_in = limit, !.offset_in = offset,
                                   !.limit = r.limit, !.offset = r.offset]
  /\ UNCHANGED <<queryVars, tree, storageVars, chunkVars, encVars,
                 elemVars>>

NextSized ==
  \E limit \in Limits, offset \in Offsets, last \in BOOLEAN :
    CreateSizedProof(limit, offset, last)

SpecSized == InitProof /\ [][NextSized]_vars

\* the KV nodes a proof pushes for keys the query contains
QueriedPushes(ops) ==
  Cardinality({i \in 1..Len(ops) :
                 /\ ops[i].op = "Push"
                 /\ ops[i].node.t = "KV"
                 /\ ops[i].node.key \in QueryKeys(query)})

\* C25: create_proof with a limit, and no offset to skip, pushes at most
\* limit of the queried KV nodes and returns the limit that remains; an
\* offset given comes back as an offset
C25_LimitThreaded ==
  (proofOut.op = "create_proof" /\ IsSome(proofOut.limit_in)) =>
    /\ unwrap_or(proofOut.offset_in, 0) = 0 =>
         /\ QueriedPushes(proofOut.proof) <= Unwrap(proofOut.limit_in)
         /\ proofOut.limit
              = Some(Unwrap(proofOut.limit_in) - QueriedPushes(proofOut.proof))
    /\ IsSome(proofOut.offset_in) => IsSome(proofOut.offset)

\* --------------------------------------------- insert_key and insert_all
\* an insert call has made q of the query
InsertStep(q) == query' = q /\ ninserts' = ninserts + 1

\* the query holds a range that ends or starts at key without containing it
OpenBoundAt(q, key) ==
  \E i \in 1..Len(q.items) :
    /\ is_range(q.items[i])
    /\ ~contains(q.items[i], key)
    /\ \/ ~upper_unbounded(q.items[i]) /\ upper_bound(q.items[i])[1] = key
       \/ ~lower_unbounded(q.items[i]) /\ lower_bound(q.items[i])[1] = key

\* C26: insert_key(k) leaves a query that contains k as it is; when a range
\* of the query has a non-inclusive bound equal to k and no item contains
\* k, the key is merged into the range: the query contains k afterwards,
\* holds as many items as before and no Key item for k
C26_InsertKeyMerges ==
  [][\A k \in BoundKeys :
       InsertStep(insert_key(query, k)) =>
         /\ k \in QueryKeys(query) => query' = query
         /\ (k \notin QueryKeys(query) /\ OpenBoundAt(query, k)) =>
              /\ k \in QueryKeys(query')
              /\ Len(query'.items) = Len(query.items)
              /\ \A i \in 1..Len(query'.items) :
                   query'.items[i] # QueryItem("Key", k, k)]_vars

\* C27: after insert_all the items of the query are the single item
\* RangeFull, whatever items it held before
C27_InsertAllAlone ==
  [][InsertStep(insert_all(query)) =>
       query'.items = <<QueryItem("RangeFull", EmptyKey, EmptyKey)>>]_vars

\* C28: the comparison of QueryItems is antisymmetric: a.cmp(b) is Equal
\* exactly when b.cmp(a) is Equal, and Less exactly when b.cmp(a) is Greater
C28_CmpAntisymmetric ==
  itemOut.op = "cmp" =>
    /\ itemOut.ord = "Equal" <=> cmp(qb, qa) = "Equal"
    /\ itemOut.ord = "Less" <=> cmp(qb, qa) = "Greater"

\* ------------------------------------------------ the u16 limit and offset
\* C29: no subtraction on the limit and offset counters goes below zero: a
\* run of a sized or path query does not panic in a build with overflow
\* checks, and in a build without them the counters end no higher than
\* they started
C29_NoUnderflow ==
  out.op \in {"get_sized_query", "get_path_query"} =>
    /\ out.status # "panic"
    /\ IsSome(out.limit_in) =>
         IsSome(out.limit) /\ Unwrap(out.limit) <= Unwrap(out.limit_in)
    /\ IsSome(out.offset_in) =>
         IsSome(out.offset) /\ Unwrap(out.offset) <= Unwrap(out.offset_in)

\* ------------------------------------------------- keys within the range
\* C30: every element a run returns for a range item is stored under a key
\* the item contains, in both directions and for every variant, whether or
\* not the ends of the range are stored
C30_WithinRange ==
  (out.op = "get_query" /\ Len(query.items) = 1 /\ is_range(query.items[1])) =>
    \A i \in 1..Len(out.results) :
      \E k \in Span(query.items[1]) :
        /\ k \in DOMAIN db[RootPath]
        /\ out.results[i] = db[RootPath][k]

====
